---- MODULE Spec2Model ----
(***************************************************************************)
(* A model of the alias resolution engine: the custom alias ledger         *)
(* (CustomAliasStore.py), the catalog index (card_index_manager.py) and    *)
(* the Discord teaching flow (discord_alias_bot.py).                       *)
(*                                                                         *)
(* A Python str is a sequence of one-character strings, so that strip,     *)
(* casefold, upper, the csv writer and the csv reader are computed         *)
(* character by character.                                                 *)
(***************************************************************************)
EXTENDS Naturals, Integers, Sequences, FiniteSets, TLC

(***************************************************************************)
(* Characters and strings                                                  *)
(***************************************************************************)
LF == "\n"
CR == "\r"
QUOTE == "\""
COMMA == ","
SP == " "

\* str.isspace for the characters of the model's alphabet
IsSpace(c) == c \in {SP, LF, CR}

SetMin(S) == CHOOSE x \in S : \A y \in S : x <= y
SetMax(S) == CHOOSE x \in S : \A y \in S : x >= y

\* str.strip(): drop leading and trailing whitespace
Strip(s) ==
    LET idx == {i \in 1..Len(s) : ~IsSpace(s[i])}
    IN  IF idx = {} THEN <<>> ELSE SubSeq(s, SetMin(idx), SetMax(idx))

\* str.casefold() on one character of the alphabet (ASCII letters only)
FoldChar(c) ==
    CASE c = "A" -> "a"
      [] c = "B" -> "b"
      [] c = "C" -> "c"
      [] c = "Q" -> "q"
      [] c = "X" -> "x"
      [] c = "Y" -> "y"
      [] c = "Z" -> "z"
      [] OTHER -> c

Casefold(s) == [i \in 1..Len(s) |-> FoldChar(s[i])]

\* str.upper() on one character of the alphabet
UpperChar(c) ==
    CASE c = "a" -> "A"
      [] c = "b" -> "B"
      [] c = "c" -> "C"
      [] c = "q" -> "Q"
      [] c = "x" -> "X"
      [] c = "y" -> "Y"
      [] c = "z" -> "Z"
      [] OTHER -> c

Upper(s) == [i \in 1..Len(s) |-> UpperChar(s[i])]

\* str.isalnum for one character: the letters of the alphabet
Alnum == {"a", "b", "c", "q", "x", "y", "z", "A", "B", "C", "Q", "X", "Y", "Z"}

Whitespace == {SP, LF, CR}

\* The maximal runs of characters of s that are not in seps, in order:
\* str.split() for seps = whitespace
RECURSIVE Runs(_, _, _, _)
Runs(s, seps, i, cur) ==
    IF i > Len(s) THEN (IF cur = <<>> THEN <<>> ELSE <<cur>>)
    ELSE LET stops == {k \in i..Len(s) : s[k] \in seps}
             k == IF stops = {} THEN Len(s) + 1 ELSE SetMin(stops)
             run == cur \o SubSeq(s, i, k - 1)
         IN  (IF run = <<>> THEN <<>> ELSE <<run>>)
             \o (IF k > Len(s) THEN <<>> ELSE Runs(s, seps, k + 1, <<>>))

\* " ".join(words)
RECURSIVE JoinSp(_)
JoinSp(words) ==
    IF words = <<>> THEN <<>>
    ELSE IF Len(words) = 1 THEN words[1]
    ELSE words[1] \o <<SP>> \o JoinSp(Tail(words))

\* str.strip(chars), str.lstrip(chars), str.rstrip(chars)
StripSet(s, chars) ==
    LET idx == {i \in 1..Len(s) : s[i] \notin chars}
    IN  IF idx = {} THEN <<>> ELSE SubSeq(s, SetMin(idx), SetMax(idx))

LStripSet(s, chars) ==
    LET idx == {i \in 1..Len(s) : s[i] \notin chars}
    IN  IF idx = {} THEN <<>> ELSE SubSeq(s, SetMin(idx), Len(s))

RStripSet(s, chars) ==
    LET idx == {i \in 1..Len(s) : s[i] \notin chars}
    IN  IF idx = {} THEN <<>> ELSE SubSeq(s, 1, SetMax(idx))

\* s in t
IsSubstr(s, t) == \E i \in 0..(Len(t) - Len(s)) : SubSeq(t, i + 1, i + Len(s)) = s

IsPrefix(s, t) == Len(s) <= Len(t) /\ SubSeq(t, 1, Len(s)) = s

(***************************************************************************)
(* csv.writer, excel dialect (QUOTE_MINIMAL, doublequote, "\r\n")          *)
(***************************************************************************)
NeedsQuote(f) == \E i \in 1..Len(f) : f[i] \in {COMMA, QUOTE, CR, LF}

RECURSIVE DoubleQuotes(_)
DoubleQuotes(f) ==
    IF f = <<>> THEN <<>>
    ELSE (IF Head(f) = QUOTE THEN <<QUOTE, QUOTE>> ELSE <<Head(f)>>)
         \o DoubleQuotes(Tail(f))

\* A writer that never quotes
WriteField_Raw(f) == f

WriteField(f) ==
    IF NeedsQuote(f) THEN <<QUOTE>> \o DoubleQuotes(f) \o <<QUOTE>> ELSE f

\* writer.writerow([name, alias])
writerow(name, alias) ==
    WriteField(name) \o <<COMMA>> \o WriteField(alias) \o <<CR, LF>>

\* The header __init__ writes when the file is missing: "Name,Alias\n"
FieldName == <<"N", "a", "m", "e">>
FieldAlias == <<"A", "l", "i", "a", "s">>
Header == FieldName \o <<COMMA>> \o FieldAlias \o <<LF>>

(***************************************************************************)
(* csv.reader, excel dialect, non-strict: the parser's state machine, fed  *)
(* the characters of each line and then an end-of-line event               *)
(***************************************************************************)
EOL == "EOL"

ReaderInit ==
    [state |-> "START_RECORD", field |-> <<>>, fields |-> <<>>,
     rows |-> <<>>, err |-> FALSE]

SaveField(r) == [r EXCEPT !.fields = Append(@, r.field), !.field = <<>>]

AddChar(r, c) == [r EXCEPT !.field = Append(@, c)]

\* After a record is complete the reader returns the row and starts afresh
EndState(r, c) ==
    IF c = EOL
    THEN [r EXCEPT !.state = "START_RECORD"]
    ELSE [r EXCEPT !.state = "EAT_CRNL"]

StartField(r, c) ==
    IF c \in {LF, CR, EOL} THEN EndState(SaveField(r), c)
    ELSE IF c = QUOTE THEN [r EXCEPT !.state = "IN_QUOTED_FIELD"]
    ELSE IF c = COMMA THEN SaveField(r)
    ELSE [AddChar(r, c) EXCEPT !.state = "IN_FIELD"]

ProcessChar(r, c) ==
    CASE r.state = "START_RECORD" ->
            IF c = EOL THEN r
            ELSE IF c \in {LF, CR} THEN [r EXCEPT !.state = "EAT_CRNL"]
            ELSE StartField([r EXCEPT !.state = "START_FIELD"], c)
      [] r.state = "START_FIELD" -> StartField(r, c)
      [] r.state = "IN_FIELD" ->
            IF c \in {LF, CR, EOL} THEN EndState(SaveField(r), c)
            ELSE IF c = COMMA THEN [SaveField(r) EXCEPT !.state = "START_FIELD"]
            ELSE AddChar(r, c)
      [] r.state = "IN_QUOTED_FIELD" ->
            IF c = EOL THEN r
            ELSE IF c = QUOTE THEN [r EXCEPT !.state = "QUOTE_IN_QUOTED_FIELD"]
            ELSE AddChar(r, c)
      [] r.state = "QUOTE_IN_QUOTED_FIELD" ->
            IF c = QUOTE THEN [AddChar(r, c) EXCEPT !.state = "IN_QUOTED_FIELD"]
            ELSE IF c = COMMA THEN [SaveField(r) EXCEPT !.state = "START_FIELD"]
            ELSE IF c \in {LF, CR, EOL} THEN EndState(SaveField(r), c)
            ELSE [AddChar(r, c) EXCEPT !.state = "IN_FIELD"]
      [] r.state = "EAT_CRNL" ->
            IF c \in {LF, CR} THEN r
            ELSE IF c = EOL THEN [r EXCEPT !.state = "START_RECORD"]
            ELSE [r EXCEPT !.err = TRUE]

\* Reader.__next__ returns the fields once a line leaves the parser in
\* START_RECORD
EmitRow(r) ==
    IF r.state = "START_RECORD"
    THEN [r EXCEPT !.rows = Append(@, r.fields), !.fields = <<>>]
    ELSE r

\* With newline="" a line ends after "\n", after "\r\n", or after a "\r"
\* that no "\n" follows; the last line may have no terminator
LineEndsAt(data, i) ==
    \/ data[i] = LF
    \/ data[i] = CR /\ (i = Len(data) \/ data[i + 1] # LF)
    \/ i = Len(data)

RECURSIVE ReadFrom(_, _, _)
ReadFrom(data, i, r) ==
    IF r.err THEN r
    ELSE IF i > Len(data)
    THEN \* end of input: a pending field is saved and the row returned
         IF r.field # <<>> \/ r.state = "IN_QUOTED_FIELD"
         THEN LET s == SaveField(r)
              IN  [s EXCEPT !.rows = Append(@, s.fields), !.fields = <<>>]
         ELSE r
    ELSE LET r1 == ProcessChar(r, data[i])
         IN  IF r1.err THEN r1
             ELSE IF LineEndsAt(data, i)
             THEN ReadFrom(data, i + 1, EmitRow(ProcessChar(r1, EOL)))
             ELSE ReadFrom(data, i + 1, r1)

\* csv.reader(f): the rows of the file (each a sequence of fields)
csv_reader(data) == ReadFrom(data, 1, ReaderInit)

\* csv.DictReader: the first row names the fields, empty rows are skipped,
\* row.get(key) is None for a missing field
RowGet(fieldnames, row, key) ==
    LET idx == {i \in 1..Len(fieldnames) : fieldnames[i] = key /\ i <= Len(row)}
    IN  IF idx = {} THEN <<>> ELSE row[SetMax(idx)]


(***************************************************************************)
(* Bounds and inputs of the ledger                                         *)
(***************************************************************************)
MaxAdds == 3
MaxCrashes == 1
MaxCopyAdds == 2
MaxSnapshots == 1
MaxMutations == 1

\* The card names and alias texts a caller may pass to add_alias: empty
\* after trimming, differing in letter case or surrounding blanks only,
\* holding a comma, a quote or a newline (which the csv writer must quote)
NamePool == { <<SP>>, <<"A">>, <<"a", SP>>, <<"B", COMMA, "b">> }
AliasPool == { <<>>, <<"x">>, <<SP, "X">>, <<"y", QUOTE, LF, "y">> }

VARIABLES
    file_exists,    \* whether the backing file exists at self._path
    file_data,      \* its characters
    alive,          \* a CustomAliasStore object exists (the process runs)
    heap_dicts,     \* the process's dict objects, by identity: name -> set id
    heap_sets,      \* the process's set objects, by identity
    seen_lower,     \* self._seen_lower
    pc,             \* add_alias: "idle", "append" (validated), "update" (appended)
    arg_name,       \* the arguments of the current or last add_alias call
    arg_alias,
    ret,            \* its outcome: "none", "True", "False", "raised"
    calls,          \* add_alias calls made
    crashes,        \* process crashes
    did_io,         \* the current or last add_alias call opened the file
    accepted,       \* history: the case-folded pairs accepted so far
    appended,       \* history: the (name, alias) rows whose append completed
    pre_file,       \* history: file_data when the current call began
    pre_mem,        \* history: the in-memory maps when the current call began
    snap,           \* the dict a caller got from all_aliases() (0: none)
    snapshots,      \* all_aliases calls made
    mutations,      \* mutations the caller made to what all_aliases returned
    catalog,        \* the cards load_cards_from_csv returned, in file order
    by_alias,       \* CardIndex.by_alias, in insertion order: <<[key, card]>>
    by_name,        \* CardIndex.by_name, in insertion order
    built,          \* CardIndex.build has run
    tok,            \* the token of the last lookup
    result,         \* what the last lookup returned
    looked,         \* a lookup has returned
    norm_in,        \* the string last passed to _norm_alias
    norm_out,       \* what it returned
    norm_depth,     \* how many times _norm_alias was applied in a row
    text,           \* the message or comment body being composed
    pieces,         \* the fragments it is made of
    tokens,         \* the tokens the last extraction returned
    lookups,        \* the tokens the last resolution passed to lookup, in order
    resolved,       \* the cards of the last resolution's result, in order
    handled,        \* the operation that last ran on the text
    stream_pc,      \* where run_stream is: init, stream, reply, retry, stopped
    me,             \* the authenticated user's name, or NoUser
    dry_run,        \* cfg.bot.dry_run
    state_ids,      \* StateStore._ids
    state_file,     \* the ids in the state file
    comment,        \* the comment being handled
    reply_cards,    \* the cards of the reply being sent
    taken,          \* how many comments the stream has delivered
    outcomes,       \* history: per comment id, how each of its reply steps went
    resolved_log,   \* history: the comments whose body was resolved
    replied_log     \* history: the comments that were replied to

ledger_vars ==
    <<file_exists, file_data, alive, heap_dicts, heap_sets, seen_lower, pc,
      arg_name, arg_alias, ret, calls, crashes, did_io, accepted, appended,
      pre_file, pre_mem, snap, snapshots, mutations>>

index_vars == <<catalog, by_alias, by_name, built, tok, result, looked>>

text_vars ==
    <<norm_in, norm_out, norm_depth, text, pieces, tokens, lookups, resolved,
      handled>>

stream_vars ==
    <<stream_pc, me, dry_run, state_ids, state_file, comment, reply_cards,
      taken, outcomes, resolved_log, replied_log>>

(***************************************************************************)
(* CustomAliasStore: the in-memory maps                                    *)
(***************************************************************************)
EmptyDict == [n \in {} |-> 0]

\* self._aliases_by_name is the first dict the process creates
StoreDict == 1

\* The memory of a store: its heap and its _seen_lower
Mem(dicts, sets, seen) == [dicts |-> dicts, sets |-> sets, seen |-> seen]

EmptyMem == Mem(<<EmptyDict>>, <<>>, {})

\* The mapping a dict object denotes: name -> set of alias
DictView(dicts, sets, d) == [n \in DOMAIN dicts[d] |-> sets[dicts[d][n]]]

\* The (name, alias) pairs of a mapping
PairsOf(view) ==
    {p \in (DOMAIN view) \X (UNION {view[m] : m \in DOMAIN view}) : p[2] \in view[p[1]]}

Key(name, alias) == <<Casefold(name), Casefold(alias)>>

\* An update of the memory that stores the pair without consulting
\* _seen_lower
add_in_memory_Unchecked(m, name, alias) ==
    LET key == Key(name, alias)
        d == m.dicts[StoreDict]
    IN  IF name \in DOMAIN d
        THEN [m EXCEPT !.seen = @ \cup {key},
                       !.sets[d[name]] = @ \cup {alias}]
        ELSE [m EXCEPT !.seen = @ \cup {key},
                       !.sets = Append(@, {alias}),
                       !.dicts[StoreDict] = d @@ (name :> Len(m.sets) + 1)]

\* CustomAliasStore._add_in_memory
add_in_memory(m, name, alias) ==
    LET key == Key(name, alias)
        d == m.dicts[StoreDict]
    IN  IF key \in m.seen THEN m
        ELSE IF name \in DOMAIN d
        THEN [m EXCEPT !.seen = @ \cup {key},
                       !.sets[d[name]] = @ \cup {alias}]
        ELSE [m EXCEPT !.seen = @ \cup {key},
                       !.sets = Append(@, {alias}),
                       !.dicts[StoreDict] = d @@ (name :> Len(m.sets) + 1)]

\* CustomAliasStore._load_all, the loop over the DictReader's rows
RECURSIVE LoadRows(_, _, _, _)
LoadRows(fieldnames, rows, i, m) ==
    IF i > Len(rows) THEN m
    ELSE LET name == Strip(RowGet(fieldnames, rows[i], FieldName))
             alias == Strip(RowGet(fieldnames, rows[i], FieldAlias))
         IN  IF rows[i] = <<>> \/ name = <<>> \/ alias = <<>>
             THEN LoadRows(fieldnames, rows, i + 1, m)
             ELSE LoadRows(fieldnames, rows, i + 1, add_in_memory(m, name, alias))

\* CustomAliasStore._load_all: clear both maps and replay the file
load_all(data) ==
    LET rows == csv_reader(data).rows
    IN  IF rows = <<>> THEN EmptyMem
        ELSE LoadRows(rows[1], rows, 2, EmptyMem)

\* The stripped (name, alias) rows of the file, as _load_all reads them
RECURSIVE RowPairs(_, _, _)
RowPairs(fieldnames, rows, i) ==
    IF i > Len(rows) THEN <<>>
    ELSE LET name == Strip(RowGet(fieldnames, rows[i], FieldName))
             alias == Strip(RowGet(fieldnames, rows[i], FieldAlias))
         IN  (IF rows[i] = <<>> \/ name = <<>> \/ alias = <<>>
              THEN <<>> ELSE << <<name, alias>> >>)
             \o RowPairs(fieldnames, rows, i + 1)

FilePairs(data) ==
    LET rows == csv_reader(data).rows
    IN  IF rows = <<>> THEN <<>> ELSE RowPairs(rows[1], rows, 2)

Range(s) == {s[i] : i \in 1..Len(s)}

\* The store's memory and what all_aliases() denotes
StoreMem == Mem(heap_dicts, heap_sets, seen_lower)
aliases_by_name == DictView(heap_dicts, heap_sets, StoreDict)

(***************************************************************************)
(* CustomAliasStore: construction, add_alias step by step, crash           *)
(***************************************************************************)
\* A ledger written by an earlier run and edited by hand: "\n" line ends,
\* the pair (A, x) taught twice in different letter case
OldFile ==
    Header \o <<"A", COMMA, "x", LF>> \o <<"a", COMMA, "X", LF>>

NoArg == <<>>

LedgerStart ==
    /\ file_exists \in BOOLEAN
    /\ file_data = IF file_exists THEN OldFile ELSE <<>>
    /\ alive = FALSE
    /\ heap_dicts = <<>>
    /\ heap_sets = <<>>
    /\ seen_lower = {}
    /\ pc = "idle"
    /\ arg_name = NoArg
    /\ arg_alias = NoArg
    /\ ret = "none"
    /\ calls = 0
    /\ crashes = 0
    /\ did_io = FALSE
    /\ accepted = {}
    /\ appended = {}
    /\ pre_file = <<>>
    /\ pre_mem = EmptyMem
    /\ snap = 0
    /\ snapshots = 0
    /\ mutations = 0

NoCard == [name |-> <<"None">>, aliases |-> <<>>]
NoKey == <<"None">>

IndexIdle ==
    /\ catalog = <<>>
    /\ by_alias = <<>>
    /\ by_name = <<>>
    /\ built = FALSE
    /\ tok = NoKey
    /\ result = NoCard
    /\ looked = FALSE

\* No string normalised, no text composed or handled yet
TextIdle ==
    /\ norm_in = <<>>
    /\ norm_out = <<>>
    /\ norm_depth = 0
    /\ text = <<>>
    /\ pieces = 0
    /\ tokens = <<>>
    /\ lookups = <<>>
    /\ resolved = <<>>
    /\ handled = "none"

\* No user, no comment
NoUser == <<"None">>
NoComment == [id |-> <<>>, author |-> <<>>, body |-> <<>>]

\* The comment ids of the streaming runs
CommentIds == {<<"c", "1">>, <<"c", "2">>}

\* A reply step that has not made its first attempt
NoOutcome == [first |-> "none", retry |-> "none"]

\* run_stream is not running
StreamIdle ==
    /\ stream_pc = "off"
    /\ me = NoUser
    /\ dry_run = FALSE
    /\ state_ids = {}
    /\ state_file = {}
    /\ comment = NoComment
    /\ reply_cards = <<>>
    /\ taken = 0
    /\ outcomes = [i \in CommentIds |-> <<>>]
    /\ resolved_log = {}
    /\ replied_log = {}

LedgerInit == LedgerStart /\ IndexIdle /\ TextIdle /\ StreamIdle

\* A constructor that writes the header whether or not the file exists
ConstructStore_Truncates ==
    /\ ~alive
    /\ LET m == load_all(Header)
       IN  /\ file_exists' = TRUE
           /\ file_data' = Header
           /\ alive' = TRUE
           /\ heap_dicts' = m.dicts
           /\ heap_sets' = m.sets
           /\ seen_lower' = m.seen
           /\ accepted' = {}
    /\ UNCHANGED <<pc, arg_name, arg_alias, ret, calls, crashes, did_io,
                   appended, pre_file, pre_mem, snap, snapshots, mutations>>

\* CustomAliasStore.__init__: create the file with its header when it is
\* missing, then _load_all. A csv.Error of the reader leaves no store.
ConstructStore ==
    /\ ~alive
    /\ LET data == IF file_exists THEN file_data ELSE Header
           m == load_all(data)
           ok == ~csv_reader(data).err
       IN  /\ file_exists' = TRUE
           /\ file_data' = data
           /\ alive' = ok
           /\ heap_dicts' = IF ok THEN m.dicts ELSE <<>>
           /\ heap_sets' = IF ok THEN m.sets ELSE <<>>
           /\ seen_lower' = IF ok THEN m.seen ELSE {}
           /\ accepted' = {Key(p[1], p[2]) : p \in Range(FilePairs(data))}
    /\ UNCHANGED <<pc, arg_name, arg_alias, ret, calls, crashes, did_io,
                   appended, pre_file, pre_mem, snap, snapshots, mutations>>

Construct == ConstructStore /\ UNCHANGED <<index_vars, text_vars, stream_vars>>

\* A duplicate check that compares the trimmed pair without case-folding
Rejects_CaseSensitive(seen, name, alias) ==
    \/ Strip(name) = <<>>
    \/ Strip(alias) = <<>>
    \/ <<Strip(name), Strip(alias)>> \in seen

\* add_alias, lines 62-69: the call is rejected (returns False) when either
\* argument is empty after trimming or the case-folded pair is known
Rejects(seen, name, alias) ==
    \/ Strip(name) = <<>>
    \/ Strip(alias) = <<>>
    \/ Key(Strip(name), Strip(alias)) \in seen

\* An add_alias that mirrors the pair into memory before the append
AddBegin_MemoryFirst(name, alias) ==
    /\ alive
    /\ pc = "idle"
    /\ calls < MaxAdds
    /\ calls' = calls + 1
    /\ arg_name' = name
    /\ arg_alias' = alias
    /\ pre_file' = file_data
    /\ pre_mem' = StoreMem
    /\ did_io' = FALSE
    /\ IF Rejects(seen_lower, name, alias)
       THEN /\ pc' = "idle" /\ ret' = "False"
            /\ UNCHANGED <<heap_dicts, heap_sets, seen_lower>>
       ELSE LET m == add_in_memory(StoreMem, Strip(name), Strip(alias))
            IN  /\ pc' = "append" /\ ret' = "none"
                /\ heap_dicts' = m.dicts
                /\ heap_sets' = m.sets
                /\ seen_lower' = m.seen
    /\ UNCHANGED <<file_exists, file_data, alive, crashes, accepted, appended,
                   snap, snapshots, mutations>>
    /\ UNCHANGED <<index_vars, text_vars, stream_vars>>

\* An add_alias that opens the file before it validates its arguments
AddBegin_OpensFirst(name, alias) ==
    /\ alive
    /\ pc = "idle"
    /\ calls < MaxAdds
    /\ calls' = calls + 1
    /\ arg_name' = name
    /\ arg_alias' = alias
    /\ pre_file' = file_data
    /\ pre_mem' = StoreMem
    /\ did_io' = TRUE
    /\ IF Rejects(seen_lower, name, alias)
       THEN pc' = "idle" /\ ret' = "False"
       ELSE pc' = "append" /\ ret' = "none"
    /\ UNCHANGED <<file_exists, file_data, alive, heap_dicts, heap_sets,
                   seen_lower, crashes, accepted, appended, snap, snapshots,
                   mutations>>
    /\ UNCHANGED <<index_vars, text_vars, stream_vars>>

\* add_alias, lines 62-69: validate
AddBegin(name, alias) ==
    /\ alive
    /\ pc = "idle"
    /\ calls < MaxAdds
    /\ calls' = calls + 1
    /\ arg_name' = name
    /\ arg_alias' = alias
    /\ pre_file' = file_data
    /\ pre_mem' = StoreMem
    /\ did_io' = FALSE
    /\ IF Rejects(seen_lower, name, alias)
       THEN pc' = "idle" /\ ret' = "False"
       ELSE pc' = "append" /\ ret' = "none"
    /\ UNCHANGED <<file_exists, file_data, alive, heap_dicts, heap_sets,
                   seen_lower, crashes, accepted, appended, snap, snapshots,
                   mutations>>
    /\ UNCHANGED <<index_vars, text_vars, stream_vars>>

\* add_alias, lines 72-74: open for append, write one row, close
AddAppend ==
    /\ alive
    /\ pc = "append"
    /\ did_io' = TRUE
    /\ file_data' = file_data \o writerow(Strip(arg_name), Strip(arg_alias))
    /\ appended' = appended \cup {<<Strip(arg_name), Strip(arg_alias)>>}
    /\ pc' = "update"
    /\ UNCHANGED <<file_exists, alive, heap_dicts, heap_sets, seen_lower,
                   arg_name, arg_alias, ret, calls, crashes, accepted,
                   pre_file, pre_mem, snap, snapshots, mutations>>
    /\ UNCHANGED <<index_vars, text_vars, stream_vars>>

\* A failed append after which the pair is mirrored into memory all the same
AddAppendFails_UpdatesMemory ==
    /\ alive
    /\ pc = "append"
    /\ did_io' = TRUE
    /\ pc' = "idle"
    /\ ret' = "raised"
    /\ LET m == add_in_memory(StoreMem, Strip(arg_name), Strip(arg_alias))
       IN  /\ heap_dicts' = m.dicts
           /\ heap_sets' = m.sets
           /\ seen_lower' = m.seen
    /\ UNCHANGED <<file_exists, file_data, alive, arg_name, arg_alias, calls,
                   crashes, accepted, appended, pre_file, pre_mem, snap,
                   snapshots, mutations>>
    /\ UNCHANGED <<index_vars, text_vars, stream_vars>>

\* add_alias, lines 72-74, when open or write raises OSError: nothing is
\* written and the exception leaves add_alias
AddAppendFails ==
    /\ alive
    /\ pc = "append"
    /\ did_io' = TRUE
    /\ pc' = "idle"
    /\ ret' = "raised"
    /\ UNCHANGED <<file_exists, file_data, alive, heap_dicts, heap_sets,
                   seen_lower, arg_name, arg_alias, calls, crashes, accepted,
                   appended, pre_file, pre_mem, snap, snapshots, mutations>>
    /\ UNCHANGED <<index_vars, text_vars, stream_vars>>

\* add_alias, lines 77-78: mirror the row into memory and return True
AddUpdate ==
    /\ alive
    /\ pc = "update"
    /\ LET m == add_in_memory(StoreMem, Strip(arg_name), Strip(arg_alias))
       IN  /\ heap_dicts' = m.dicts
           /\ heap_sets' = m.sets
           /\ seen_lower' = m.seen
    /\ accepted' = accepted \cup {Key(Strip(arg_name), Strip(arg_alias))}
    /\ ret' = "True"
    /\ pc' = "idle"
    /\ UNCHANGED <<file_exists, file_data, alive, arg_name, arg_alias, calls,
                   crashes, did_io, appended, pre_file, pre_mem, snap,
                   snapshots, mutations>>
    /\ UNCHANGED <<index_vars, text_vars, stream_vars>>

\* The process dies at any step: its objects are gone, the file stays
Crash ==
    /\ alive
    /\ crashes < MaxCrashes
    /\ crashes' = crashes + 1
    /\ alive' = FALSE
    /\ heap_dicts' = <<>>
    /\ heap_sets' = <<>>
    /\ seen_lower' = {}
    /\ pc' = "idle"
    /\ arg_name' = NoArg
    /\ arg_alias' = NoArg
    /\ ret' = "none"
    /\ did_io' = FALSE
    /\ pre_file' = <<>>
    /\ pre_mem' = EmptyMem
    /\ snap' = 0
    /\ UNCHANGED <<file_exists, file_data, calls, accepted, appended,
                   snapshots, mutations>>
    /\ UNCHANGED <<index_vars, text_vars, stream_vars>>

vars == <<ledger_vars, index_vars, text_vars, stream_vars>>

Next ==
    \/ Construct
    \/ \E name \in NamePool, alias \in AliasPool : AddBegin(name, alias)
    \/ AddAppend
    \/ AddAppendFails
    \/ AddUpdate
    \/ Crash

Spec == LedgerInit /\ [][Next]_vars


(***************************************************************************)
(* all_aliases and what a caller can do with the mapping it returns        *)
(***************************************************************************)
\* A shallow copy, dict(self._aliases_by_name): a new dict whose values are
\* the store's own set objects
all_aliases_shallow(dicts, sets) ==
    [dicts |-> Append(dicts, dicts[StoreDict]), sets |-> sets,
     ref |-> Len(dicts) + 1]

\* CustomAliasStore.all_aliases: {k: set(v) for k, v in ...}, a new dict
\* object holding a new set object for every name
all_aliases(dicts, sets) ==
    LET d == dicts[StoreDict]
        n == Cardinality(DOMAIN d)
        order == CHOOSE f \in [1..n -> DOMAIN d] :
                    \A i, j \in 1..n : i # j => f[i] # f[j]
        pos(k) == CHOOSE i \in 1..n : order[i] = k
    IN  [dicts |-> Append(dicts, [k \in DOMAIN d |-> Len(sets) + pos(k)]),
         sets |-> sets \o [i \in 1..n |-> sets[d[order[i]]]],
         ref |-> Len(dicts) + 1]

\* The caller calls all_aliases() between two add_alias calls
AllAliases ==
    /\ alive
    /\ pc = "idle"
    /\ snapshots < MaxSnapshots
    /\ snapshots' = snapshots + 1
    /\ LET r == all_aliases(heap_dicts, heap_sets)
       IN  /\ heap_dicts' = r.dicts
           /\ heap_sets' = r.sets
           /\ snap' = r.ref
    /\ UNCHANGED <<file_exists, file_data, alive, seen_lower, pc, arg_name,
                   arg_alias, ret, calls, crashes, did_io, accepted, appended,
                   pre_file, pre_mem, mutations>>
    /\ UNCHANGED <<index_vars, text_vars, stream_vars>>

\* An alias text that no add_alias call of the model passes
ForeignAlias == <<"z">>

\* The caller runs returned[name].add("z")
CallerAddsToSet(name) ==
    /\ snap # 0
    /\ pc = "idle"
    /\ mutations < MaxMutations
    /\ name \in DOMAIN heap_dicts[snap]
    /\ mutations' = mutations + 1
    /\ heap_sets' = [heap_sets EXCEPT ![heap_dicts[snap][name]] = @ \cup {ForeignAlias}]
    /\ UNCHANGED <<file_exists, file_data, alive, heap_dicts, seen_lower, pc,
                   arg_name, arg_alias, ret, calls, crashes, did_io, accepted,
                   appended, pre_file, pre_mem, snap, snapshots>>
    /\ UNCHANGED <<index_vars, text_vars, stream_vars>>

\* The caller runs returned[name].clear()
CallerClearsSet(name) ==
    /\ snap # 0
    /\ pc = "idle"
    /\ mutations < MaxMutations
    /\ name \in DOMAIN heap_dicts[snap]
    /\ mutations' = mutations + 1
    /\ heap_sets' = [heap_sets EXCEPT ![heap_dicts[snap][name]] = {}]
    /\ UNCHANGED <<file_exists, file_data, alive, heap_dicts, seen_lower, pc,
                   arg_name, arg_alias, ret, calls, crashes, did_io, accepted,
                   appended, pre_file, pre_mem, snap, snapshots>>
    /\ UNCHANGED <<index_vars, text_vars, stream_vars>>

\* The caller runs del returned[name]
CallerDeletesKey(name) ==
    /\ snap # 0
    /\ pc = "idle"
    /\ mutations < MaxMutations
    /\ name \in DOMAIN heap_dicts[snap]
    /\ mutations' = mutations + 1
    /\ heap_dicts' = [heap_dicts EXCEPT ![snap] =
                        [k \in (DOMAIN @) \ {name} |-> @[k]]]
    /\ UNCHANGED <<file_exists, file_data, alive, heap_sets, seen_lower, pc,
                   arg_name, arg_alias, ret, calls, crashes, did_io, accepted,
                   appended, pre_file, pre_mem, snap, snapshots>>
    /\ UNCHANGED <<index_vars, text_vars, stream_vars>>

\* The add_alias calls made around a snapshot: pairs that are accepted
CopyNames == { <<"A">>, <<"B", COMMA, "b">> }
CopyAliases == { <<"x">>, <<"y", QUOTE, LF, "y">> }

\* The names add_alias can store (trimmed)
StoredNames == {Strip(n) : n \in NamePool \cup CopyNames} \ {<<>>}

CopyAdd(name, alias) == calls < MaxCopyAdds /\ AddBegin(name, alias)

CopyNext ==
    \/ Construct
    \/ \E name \in CopyNames, alias \in CopyAliases : CopyAdd(name, alias)
    \/ AddAppend
    \/ AddUpdate
    \/ AllAliases
    \/ \E name \in StoredNames : CallerAddsToSet(name)
    \/ \E name \in StoredNames : CallerClearsSet(name)
    \/ \E name \in StoredNames : CallerDeletesKey(name)

SpecCopy == LedgerInit /\ [][CopyNext]_vars

\* What the mapping the caller holds denotes
SnapView == DictView(heap_dicts, heap_sets, snap)

(***************************************************************************)
(* card_loader_from_csv: from the rows of the catalog file to Card records *)
(* A Card is [name, aliases]: cost, description, tags and number play no   *)
(* part in the index.                                                      *)
(***************************************************************************)
\* _split_multi, the comma/pipe path (no cell of the model is a JSON array):
\* split on "," and "|", trim blanks and quotes, drop empty tokens
RECURSIVE CleanChunks(_)
CleanChunks(chunks) ==
    IF chunks = <<>> THEN <<>>
    ELSE LET t1 == Strip(StripSet(StripSet(Strip(Head(chunks)), {QUOTE}), {"'"}))
             t2 == RStripSet(LStripSet(t1, {"["}), {"]"})
         IN  (IF t2 = <<>> THEN <<>> ELSE <<t2>>) \o CleanChunks(Tail(chunks))

split_multi(value) == CleanChunks(Runs(value, {COMMA, "|"}, 1, <<>>))

\* load_cards_from_csv, lines 72-73: aliases = [a.strip() for a in aliases if a.strip()]
RECURSIVE StripAll(_)
StripAll(items) ==
    IF items = <<>> THEN <<>>
    ELSE (IF Strip(Head(items)) = <<>> THEN <<>> ELSE <<Strip(Head(items))>>)
         \o StripAll(Tail(items))

\* load_cards_from_csv, the loop over the rows: a row with an empty name is
\* skipped. A row is [name, aliases], the two cells as read.
RECURSIVE load_cards(_)
load_cards(rows) ==
    IF rows = <<>> THEN <<>>
    ELSE LET name == Strip(Head(rows).name)
             aliases == StripAll(split_multi(Head(rows).aliases))
         IN  (IF name = <<>> THEN <<>>
              ELSE << [name |-> name, aliases |-> aliases] >>)
             \o load_cards(Tail(rows))


(***************************************************************************)
(* card_index_manager: normalisation, scoring, CardIndex.build and lookup  *)
(* A dict is a sequence of [key, card] entries in insertion order.         *)
(***************************************************************************)
\* A normaliser that replaces each pair of blanks by one space, once
RECURSIVE HalveBlanks(_)
HalveBlanks(s) ==
    IF Len(s) < 2 THEN s
    ELSE IF IsSpace(s[1]) /\ IsSpace(s[2])
         THEN <<SP>> \o HalveBlanks(SubSeq(s, 3, Len(s)))
         ELSE <<s[1]>> \o HalveBlanks(Tail(s))

norm_alias_HalvesBlanks(s) == Upper(HalveBlanks(Strip(s)))

\* _norm_alias: " ".join(s.strip().split()).upper()
norm_alias(s) == Upper(JoinSp(Runs(Strip(s), Whitespace, 1, <<>>)))

\* _common_prefix_len
RECURSIVE common_prefix_len(_, _)
common_prefix_len(a, b) ==
    IF a # <<>> /\ b # <<>> /\ Head(a) = Head(b)
    THEN 1 + common_prefix_len(Tail(a), Tail(b))
    ELSE 0

Min2(x, y) == IF x <= y THEN x ELSE y
Max2(x, y) == IF x >= y THEN x ELSE y

\* _levenshtein, the inner loop: the row curr of the DP table from the row
\* prev (prev[j + 1] here is prev[j] there)
RECURSIVE LevRow(_, _, _, _, _)
LevRow(prev, curr, ca, b, j) ==
    IF j > Len(b) THEN curr
    ELSE LET cost == IF ca = b[j] THEN 0 ELSE 1
             cell == Min2(Min2(prev[j + 1] + 1, curr[j] + 1), prev[j] + cost)
         IN  LevRow(prev, Append(curr, cell), ca, b, j + 1)

RECURSIVE LevRows(_, _, _, _)
LevRows(prev, a, b, i) ==
    IF i > Len(a) THEN prev
    ELSE LevRows(LevRow(prev, <<i>>, a[i], b, 1), a, b, i + 1)

\* _levenshtein
levenshtein(a, b) ==
    IF a = b THEN 0
    ELSE IF a = <<>> THEN Len(b)
    ELSE IF b = <<>> THEN Len(a)
    ELSE LET last == LevRows([j \in 1..(Len(b) + 1) |-> j - 1], a, b, 1)
         IN  last[Len(last)]

\* _split_words: every non-alphanumeric character separates
split_words(key) == Runs(key, {c \in Range(key) : c \notin Alnum}, 1, <<>>)

\* dict operations on an insertion-ordered dict
DictKeys(d) == {d[i].key : i \in 1..Len(d)}
DictHas(d, k) == k \in DictKeys(d)
DictGet(d, k) == d[CHOOSE i \in 1..Len(d) : d[i].key = k].card
\* A setdefault that replaces the value of a key already there
DictSetDefault_Overwrites(d, k, v) ==
    IF DictHas(d, k)
    THEN [i \in 1..Len(d) |-> IF d[i].key = k THEN [key |-> k, card |-> v] ELSE d[i]]
    ELSE Append(d, [key |-> k, card |-> v])

\* d.setdefault(k, v)
DictSetDefault(d, k, v) ==
    IF DictHas(d, k) THEN d ELSE Append(d, [key |-> k, card |-> v])
\* d[k] = v
DictSet(d, k, v) ==
    IF DictHas(d, k)
    THEN [i \in 1..Len(d) |-> IF d[i].key = k THEN [key |-> k, card |-> v] ELSE d[i]]
    ELSE Append(d, [key |-> k, card |-> v])

\* CardIndex.build, lines 74-77: the aliases of one card
RECURSIVE AddAliases(_, _, _)
AddAliases(alias_map, aliases, c) ==
    IF aliases = <<>> THEN alias_map
    ELSE AddAliases(DictSetDefault(alias_map, norm_alias(Head(aliases)), c),
                    Tail(aliases), c)

\* A build that does not register the card's own name as an alias key
RECURSIVE BuildFrom_NoNameKey(_, _)
BuildFrom_NoNameKey(cards, idx) ==
    IF cards = <<>> THEN idx
    ELSE LET c == Head(cards)
         IN  BuildFrom_NoNameKey(Tail(cards),
                 [by_alias |-> AddAliases(idx.by_alias, c.aliases, c),
                  by_name |-> DictSet(idx.by_name, norm_alias(c.name), c)])

\* CardIndex.build, the loop over the cards
RECURSIVE BuildFrom(_, _)
BuildFrom(cards, idx) ==
    IF cards = <<>> THEN idx
    ELSE LET c == Head(cards)
             name_key == norm_alias(c.name)
             name_map == DictSet(idx.by_name, name_key, c)
             alias_map == DictSetDefault(AddAliases(idx.by_alias, c.aliases, c),
                                         name_key, c)
         IN  BuildFrom(Tail(cards), [by_alias |-> alias_map, by_name |-> name_map])

\* CardIndex.build
build(cards) == BuildFrom(cards, [by_alias |-> <<>>, by_name |-> <<>>])

\* A comparison that looks at prefix_len alone
ScoreGreater_PrefixOnly(s, t) == s[1] > t[1]

\* Python's order on the score tuples
ScoreGreater(s, t) ==
    \E i \in 1..4 : s[i] > t[i] /\ \A j \in 1..(i - 1) : s[j] = t[j]

RECURSIVE MaxPrefix(_, _)
MaxPrefix(norm_tok, words) ==
    IF words = <<>> THEN 0
    ELSE Max2(common_prefix_len(norm_tok, Head(words)),
              MaxPrefix(norm_tok, Tail(words)))

RECURSIVE MinEdit(_, _, _)
MinEdit(norm_tok, words, d) ==
    IF words = <<>> THEN d
    ELSE MinEdit(norm_tok, Tail(words), Min2(d, levenshtein(norm_tok, Head(words))))

\* CardIndex.lookup, lines 110-130: the score of one key
Score(norm_tok, key) ==
    LET words == split_words(key)
        prefix_len == MaxPrefix(norm_tok, words)
        edit_dist == MinEdit(norm_tok, words, levenshtein(norm_tok, key))
        substr_len == IF IsSubstr(norm_tok, key) THEN Len(norm_tok)
                      ELSE IF IsSubstr(key, norm_tok) THEN Len(key)
                      ELSE 0
    IN  <<prefix_len, 0 - edit_dist, substr_len, Len(key)>>

\* CardIndex.lookup, lines 105-133: the loop keeping the best key
RECURSIVE BestFrom(_, _, _, _)
BestFrom(alias_map, norm_tok, i, best) ==
    IF i > Len(alias_map) THEN best
    ELSE LET score == Score(norm_tok, alias_map[i].key)
         IN  BestFrom(alias_map, norm_tok, i + 1,
                      IF ScoreGreater(score, best.score)
                      THEN [key |-> alias_map[i].key, score |-> score]
                      ELSE best)

Best(alias_map, norm_tok) ==
    BestFrom(alias_map, norm_tok, 1,
             [key |-> NoKey, score |-> <<0 - 1, 0 - 10000, 0 - 1, 0 - 1>>])

\* A gate one edit too wide
Accepts_UpTo3(score) == score[1] > 0 \/ score[3] > 0 \/ (0 - score[2]) <= 3

\* A lookup that goes straight to the scoring loop
lookup_FuzzyOnly(alias_map, token) ==
    IF token = <<>> THEN NoCard
    ELSE LET best == Best(alias_map, norm_alias(token))
         IN  IF best.key # NoKey /\ best.key # <<>>
                /\ (best.score[1] > 0 \/ best.score[3] > 0 \/ (0 - best.score[2]) <= 2)
             THEN DictGet(alias_map, best.key)
             ELSE NoCard

\* CardIndex.lookup, line 138: the acceptance gate on the best score
Accepts(score) == score[1] > 0 \/ score[3] > 0 \/ (0 - score[2]) <= 2

\* A lookup that returns the card of the best key whatever its score
lookup_NoGate(alias_map, token) ==
    IF token = <<>> THEN NoCard
    ELSE LET norm_tok == norm_alias(token)
         IN  IF DictHas(alias_map, norm_tok) THEN DictGet(alias_map, norm_tok)
             ELSE LET best == Best(alias_map, norm_tok)
                  IN  IF best.key # NoKey /\ best.key # <<>>
                      THEN DictGet(alias_map, best.key)
                      ELSE NoCard

\* CardIndex.lookup
lookup(alias_map, token) ==
    IF token = <<>> THEN NoCard
    ELSE LET norm_tok == norm_alias(token)
         IN  IF DictHas(alias_map, norm_tok) THEN DictGet(alias_map, norm_tok)
             ELSE LET best == Best(alias_map, norm_tok)
                  IN  IF best.key # NoKey /\ best.key # <<>> /\ Accepts(best.score)
                      THEN DictGet(alias_map, best.key)
                      ELSE NoCard

(***************************************************************************)
(* The index on its own: a catalog is loaded and indexed, tokens looked up *)
(***************************************************************************)
MaxCards == 2

\* Rows of the catalog file: names that collide after normalisation, an
\* alias two cards declare, an alias of two words whose first word is
\* another card's alias, an empty name, an empty alias chunk, a name with
\* punctuation
RowPool ==
    { [name |-> <<SP, "A", "b", SP, SP, "c">>, aliases |-> <<"x", COMMA, SP, "y">>],
      [name |-> <<"a", "b", SP, "c">>,         aliases |-> <<"x", SP, "z">>],
      [name |-> <<"X", "y", "z">>,             aliases |-> <<"x", "|">>],
      [name |-> <<SP>>,                        aliases |-> <<"q">>],
      [name |-> <<"B", "-", "c">>,             aliases |-> <<>>] }

\* Tokens: empty, blank, exact after normalisation, a word prefix, a
\* substring, a near miss, tokens far from every key, and a token that
\* contains one key and is three edits from another
TokenPool ==
    { <<>>, <<SP>>, <<"a", "b", SP, SP, "C">>, <<"x">>, <<"a">>, <<"c">>,
      <<"b", "y", "z">>, <<"q", "q", "q", "q">>, <<"q", "q", "q">>,
      <<"y", "q", "q", "q">>, <<"q", "x", "y", "q", "q">> }

\* The catalog files of at most MaxCards rows
CatalogFiles == UNION {[1..n -> RowPool] : n \in 0..MaxCards}

LedgerOff ==
    /\ file_exists = FALSE
    /\ LedgerStart

IndexInit == LedgerOff /\ IndexIdle /\ TextIdle /\ StreamIdle

\* DiscordAliasResponder.from_csv / reddit_card_indexer.main:
\* load_cards_from_csv, then CardIndex.build
BuildIndex(rows) ==
    /\ ~built
    /\ built' = TRUE
    /\ catalog' = load_cards(rows)
    /\ LET idx == build(load_cards(rows))
       IN  by_alias' = idx.by_alias /\ by_name' = idx.by_name
    /\ UNCHANGED <<tok, result, looked>>

FromCsv(rows) == BuildIndex(rows) /\ UNCHANGED <<ledger_vars, text_vars, stream_vars>>

\* index.lookup(token)
LookupToken(token) ==
    /\ built
    /\ tok' = token
    /\ result' = lookup(by_alias, token)
    /\ looked' = TRUE
    /\ UNCHANGED <<catalog, by_alias, by_name, built>>

Lookup(token) == LookupToken(token) /\ UNCHANGED <<ledger_vars, text_vars, stream_vars>>

IndexNext ==
    \/ \E rows \in CatalogFiles : FromCsv(rows)
    \/ \E token \in TokenPool : Lookup(token)

SpecIndex == IndexInit /\ [][IndexNext]_vars

(***************************************************************************)
(* discord_alias_bot: start-up and the "Alias:" teaching flow              *)
(***************************************************************************)
MaxTeach == 2

\* hasattr(self.responder, "register_custom_alias"): DiscordAliasResponder
\* defines from_csv, _lookup, extract_triggers, _extract_fallback_token_list,
\* _log_sanitized and handle_message, and no register_custom_alias
HasRegisterCustomAlias == FALSE

\* What a responder that had the method would do with one pair: the merge
\* of a ledger entry into the index that the specification describes
register_custom_alias(alias_map, name_map, name, alias) ==
    IF DictHas(name_map, norm_alias(name))
    THEN DictSetDefault(alias_map, norm_alias(alias),
                        DictGet(name_map, norm_alias(name)))
    ELSE alias_map

RECURSIVE RegisterAll(_, _, _)
RegisterAll(alias_map, name_map, pairs) ==
    IF pairs = {} THEN alias_map
    ELSE LET p == CHOOSE q \in pairs : TRUE
         IN  RegisterAll(register_custom_alias(alias_map, name_map, p[1], p[2]),
                         name_map, pairs \ {p})

\* AliasBot._push_all_custom_aliases_to_responder
push_all_custom_aliases(alias_map, name_map, all) ==
    IF HasRegisterCustomAlias
    THEN RegisterAll(alias_map, name_map, PairsOf(all))
    ELSE alias_map

\* AliasBot._handle_alias_reply, lines 226-230: the push after add_alias
push_taught_alias(alias_map, name_map, name, alias) ==
    IF HasRegisterCustomAlias
    THEN register_custom_alias(alias_map, name_map, name, alias)
    ELSE alias_map

\* main(): DiscordAliasResponder.from_csv, CustomAliasStore(path), AliasBot(...)
BotMain(rows) ==
    /\ ~built
    /\ ConstructStore
    /\ built' = TRUE
    /\ catalog' = load_cards(rows)
    /\ LET idx == build(load_cards(rows))
           data == IF file_exists THEN file_data ELSE Header
           m == load_all(data)
       IN  /\ by_name' = idx.by_name
           /\ by_alias' = push_all_custom_aliases(idx.by_alias, idx.by_name,
                              DictView(m.dicts, m.sets, StoreDict))
    /\ UNCHANGED <<tok, result, looked>>
    /\ UNCHANGED <<text_vars, stream_vars>>

\* The names and alias texts taught: two card names of the catalog rows, an
\* alias far from every key and one that another card declares
TeachNames == { <<"X", "y", "z">>, <<"B", "-", "c">> }
TeachAliases == { <<"q", "q", "q", "q">>, <<"x">> }

\* AliasBot._handle_alias_reply for one "Alias: name | alias" line, lines
\* 222-232: add_alias returns (True or False), then the pair is pushed to
\* the responder
TeachAlias(name, alias) ==
    /\ alive /\ built /\ pc = "idle"
    /\ calls < MaxTeach
    /\ calls' = calls + 1
    /\ arg_name' = name
    /\ arg_alias' = alias
    /\ pre_file' = file_data
    /\ pre_mem' = StoreMem
    /\ IF Rejects(seen_lower, name, alias)
       THEN /\ ret' = "False"
            /\ did_io' = FALSE
            /\ UNCHANGED <<file_data, heap_dicts, heap_sets, seen_lower,
                           accepted, appended>>
       ELSE LET m == add_in_memory(StoreMem, Strip(name), Strip(alias))
            IN  /\ ret' = "True"
                /\ did_io' = TRUE
                /\ file_data' = file_data \o writerow(Strip(name), Strip(alias))
                /\ appended' = appended \cup {<<Strip(name), Strip(alias)>>}
                /\ accepted' = accepted \cup {Key(Strip(name), Strip(alias))}
                /\ heap_dicts' = m.dicts
                /\ heap_sets' = m.sets
                /\ seen_lower' = m.seen
    /\ by_alias' = push_taught_alias(by_alias, by_name, name, alias)
    /\ UNCHANGED <<file_exists, alive, pc, crashes, snap, snapshots, mutations,
                   catalog, by_name, built, tok, result, looked>>
    /\ UNCHANGED <<text_vars, stream_vars>>

\* AliasBot._handle_alias_reply, lines 233-235: add_alias raised, the
\* error is noted and nothing is pushed
TeachAliasFails(name, alias) ==
    /\ alive /\ built /\ pc = "idle"
    /\ calls < MaxTeach
    /\ ~Rejects(seen_lower, name, alias)
    /\ calls' = calls + 1
    /\ arg_name' = name
    /\ arg_alias' = alias
    /\ pre_file' = file_data
    /\ pre_mem' = StoreMem
    /\ ret' = "raised"
    /\ did_io' = TRUE
    /\ UNCHANGED <<file_exists, file_data, alive, heap_dicts, heap_sets,
                   seen_lower, pc, crashes, accepted, appended, snap,
                   snapshots, mutations>>
    /\ UNCHANGED <<index_vars, text_vars, stream_vars>>

\* DiscordAliasResponder._lookup: self.index.lookup(token.strip())
ResponderLookup(token) ==
    /\ alive /\ built
    /\ tok' = token
    /\ result' = lookup(by_alias, Strip(token))
    /\ looked' = TRUE
    /\ UNCHANGED <<catalog, by_alias, by_name, built>>
    /\ UNCHANGED <<ledger_vars, text_vars, stream_vars>>

BotNext ==
    \/ \E rows \in CatalogFiles : BotMain(rows)
    \/ \E name \in TeachNames, alias \in TeachAliases : TeachAlias(name, alias)
    \/ \E name \in TeachNames, alias \in TeachAliases : TeachAliasFails(name, alias)
    \/ \E token \in TeachAliases : ResponderLookup(token)

SpecBot == LedgerInit /\ [][BotNext]_vars

(***************************************************************************)
(* Token extraction: extract_aliases (single brackets),                    *)
(* DiscordAliasResponder.extract_triggers (double brackets) and            *)
(* _extract_fallback_token_list                                            *)
(***************************************************************************)
LBRACKET == "["
RBRACKET == "]"
LPAREN == "("

\* {1,40} in BRACKETED_ALIAS_RE and the length test of extract_aliases
AliasMaxLen == 40

\* The length test of _extract_fallback_token_list
FallbackMaxLen == 60

\* The item count _extract_fallback_token_list accepts at most
FallbackMaxItems == 8

HttpScheme == <<"h", "t", "t", "p", ":", "/", "/">>
HttpsScheme == <<"h", "t", "t", "p", "s", ":", "/", "/">>

\* "http://" in c or "https://" in c
LooksLikeUrl(c) == IsSubstr(HttpScheme, c) \/ IsSubstr(HttpsScheme, c)

\* The first position from i on where s ends or has a character of stop
RECURSIVE RunEnd(_, _, _)
RunEnd(s, i, stop) ==
    IF i > Len(s) \/ s[i] \in stop THEN i ELSE RunEnd(s, i + 1, stop)

\* BRACKETED_ALIAS_RE matched at position i: the position of the closing
\* bracket, or 0. "[", then 1 to 40 characters other than "[", "]" and
\* newline, then "]" not followed by "("
AliasMatchAt(s, i) ==
    IF s[i] # LBRACKET THEN 0
    ELSE LET k == RunEnd(s, i + 1, {LBRACKET, RBRACKET, LF})
         IN  IF /\ k <= Len(s)
                /\ s[k] = RBRACKET
                /\ k - (i + 1) >= 1
                /\ k - (i + 1) <= AliasMaxLen
                /\ (k + 1 > Len(s) \/ s[k + 1] # LPAREN)
             THEN k ELSE 0

\* BRACKETED_ALIAS_RE.finditer(body): group 1 of each match, left to right
RECURSIVE AliasGroups(_, _)
AliasGroups(s, i) ==
    IF i > Len(s) THEN <<>>
    ELSE LET k == AliasMatchAt(s, i)
         IN  IF k = 0 THEN AliasGroups(s, i + 1)
             ELSE <<SubSeq(s, i + 1, k - 1)>> \o AliasGroups(s, k + 1)

\* extract_aliases, lines 20-27: drop URL-like candidates, keep lengths 1-40
RECURSIVE CleanAliases(_)
CleanAliases(candidates) ==
    IF candidates = <<>> THEN <<>>
    ELSE LET c == Strip(Head(candidates))
         IN  (IF ~LooksLikeUrl(c) /\ 1 <= Len(c) /\ Len(c) <= AliasMaxLen
              THEN <<c>> ELSE <<>>)
             \o CleanAliases(Tail(candidates))

\* extract_aliases
extract_aliases(body) ==
    IF body = <<>> THEN <<>> ELSE CleanAliases(AliasGroups(body, 1))

\* TRIGGER_RE matched at position i: the position of the first closing
\* bracket, or 0. "[[", then one or more characters other than brackets,
\* then "]]"
TriggerMatchAt(s, i) ==
    IF ~(i + 1 <= Len(s) /\ s[i] = LBRACKET /\ s[i + 1] = LBRACKET) THEN 0
    ELSE LET k == RunEnd(s, i + 2, {LBRACKET, RBRACKET})
         IN  IF /\ k + 1 <= Len(s)
                /\ s[k] = RBRACKET
                /\ s[k + 1] = RBRACKET
                /\ k - (i + 2) >= 1
             THEN k ELSE 0

\* TRIGGER_RE.finditer(raw): group 1 of each match, left to right
RECURSIVE TriggerGroups(_, _)
TriggerGroups(s, i) ==
    IF i > Len(s) THEN <<>>
    ELSE LET k == TriggerMatchAt(s, i)
         IN  IF k = 0 THEN TriggerGroups(s, i + 1)
             ELSE <<SubSeq(s, i + 2, k - 1)>> \o TriggerGroups(s, k + 2)

\* The separators of _extract_fallback_token_list: comma, pipe, slash, newline
Separators == {COMMA, "|", "/", LF}

\* \w for the characters of the model's alphabet
IsWord(c) == c \in Alnum \cup {"_"}

\* The end of \w* and of \s* from position i
RECURSIVE SkipWord(_, _)
SkipWord(s, i) ==
    IF i <= Len(s) /\ IsWord(s[i]) THEN SkipWord(s, i + 1) ELSE i

RECURSIVE SkipSpace(_, _)
SkipSpace(s, i) ==
    IF i <= Len(s) /\ IsSpace(s[i]) THEN SkipSpace(s, i + 1) ELSE i

\* re.search(r"[.!?]\s|^\w+\s+\w+\s+\w+", text)
looks_like_sentence(t) ==
    \/ \E i \in 1..(Len(t) - 1) : t[i] \in {".", "!", "?"} /\ IsSpace(t[i + 1])
    \/ LET a == SkipWord(t, 1)
           b == SkipSpace(t, a)
           c == SkipWord(t, b)
           d == SkipSpace(t, c)
       IN  a > 1 /\ b > a /\ c > b /\ d > c /\ d <= Len(t) /\ IsWord(t[d])

has_separators(t) == \E i \in 1..Len(t) : t[i] \in Separators

\* A filter that drops the URL-like parts and keeps parts of every length
RECURSIVE CleanParts_AnyLength(_)
CleanParts_AnyLength(parts) ==
    IF parts = <<>> THEN <<>>
    ELSE (IF ~LooksLikeUrl(Head(parts)) THEN <<Head(parts)>> ELSE <<>>)
         \o CleanParts_AnyLength(Tail(parts))

\* _extract_fallback_token_list, lines 124-132: drop URL-like parts, keep
\* lengths 1-60
RECURSIVE CleanParts(_)
CleanParts(parts) ==
    IF parts = <<>> THEN <<>>
    ELSE (IF ~LooksLikeUrl(Head(parts))
             /\ 1 <= Len(Head(parts)) /\ Len(Head(parts)) <= FallbackMaxLen
          THEN <<Head(parts)>> ELSE <<>>)
         \o CleanParts(Tail(parts))

\* A fallback that rejects every sentence-like text, separators or not
extract_fallback_SentenceFirst(raw) ==
    LET t == Strip(raw)
        parts == StripAll(Runs(t, Separators, 1, <<>>))
    IN  IF t = <<>> THEN <<>>
        ELSE IF IsSubstr(<<LBRACKET, LBRACKET>>, t)
                /\ IsSubstr(<<RBRACKET, RBRACKET>>, t) THEN <<>>
        ELSE IF looks_like_sentence(t) THEN <<>>
        ELSE IF ~(1 <= Len(parts) /\ Len(parts) <= FallbackMaxItems) THEN <<>>
        ELSE CleanParts(parts)

\* DiscordAliasResponder._extract_fallback_token_list
extract_fallback_token_list(raw) ==
    LET t == Strip(raw)
        parts == StripAll(Runs(t, Separators, 1, <<>>))
    IN  IF t = <<>> THEN <<>>
        ELSE IF IsSubstr(<<LBRACKET, LBRACKET>>, t)
                /\ IsSubstr(<<RBRACKET, RBRACKET>>, t) THEN <<>>
        ELSE IF ~has_separators(t) /\ looks_like_sentence(t) THEN <<>>
        ELSE IF ~(1 <= Len(parts) /\ Len(parts) <= FallbackMaxItems) THEN <<>>
        ELSE CleanParts(parts)

\* An extraction that returns the bracketed groups as matched, untrimmed
extract_triggers_Untrimmed(message) ==
    LET found == TriggerGroups(message, 1)
    IN  IF found # <<>> THEN found
        ELSE extract_fallback_token_list(message)

\* DiscordAliasResponder.extract_triggers
extract_triggers(message) ==
    LET found == StripAll(TriggerGroups(message, 1))
    IN  IF found # <<>> THEN found
        ELSE extract_fallback_token_list(message)

(***************************************************************************)
(* The normaliser on its own: a string is normalised, and the result again *)
(***************************************************************************)
MaxNormLen == 5
MaxNormDepth == 2

NormAlphabet == {SP, LF, "a", "B"}

\* The strings of at most MaxNormLen characters
NormInputs == UNION {[1..n -> NormAlphabet] : n \in 0..MaxNormLen}

\* _norm_alias(s)
Normalize(s) ==
    /\ norm_depth = 0
    /\ norm_in' = s
    /\ norm_out' = norm_alias(s)
    /\ norm_depth' = 1
    /\ UNCHANGED <<text, pieces, tokens, lookups, resolved, handled>>
    /\ UNCHANGED <<ledger_vars, index_vars, stream_vars>>

\* _norm_alias applied to what it returned
NormalizeAgain ==
    /\ norm_depth >= 1
    /\ norm_depth < MaxNormDepth
    /\ norm_in' = norm_out
    /\ norm_out' = norm_alias(norm_out)
    /\ norm_depth' = norm_depth + 1
    /\ UNCHANGED <<text, pieces, tokens, lookups, resolved, handled>>
    /\ UNCHANGED <<ledger_vars, index_vars, stream_vars>>

NormNext ==
    \/ \E s \in NormInputs : Normalize(s)
    \/ NormalizeAgain

SpecNorm == IndexInit /\ [][NormNext]_vars

(***************************************************************************)
(* Extraction on its own: a text is composed fragment by fragment, then an *)
(* extractor runs on it                                                    *)
(***************************************************************************)
MaxPieces == 4

\* Fragments of a message: the delimiters, a word, two words, a blank, a
\* separator that is not a blank, a full stop, a separator that is a blank,
\* a whole token
ExtractPieces ==
    { <<LBRACKET, LBRACKET>>, <<RBRACKET, RBRACKET>>, <<"a">>,
      <<"a", SP, "b">>, <<SP>>, <<COMMA>>, <<".">>, <<LF>>,
      <<LBRACKET, LBRACKET, "B", RBRACKET, RBRACKET>> }

\* The user types one more fragment of the message
AppendPiece(p) ==
    /\ handled = "none"
    /\ pieces < MaxPieces
    /\ pieces' = pieces + 1
    /\ text' = text \o p
    /\ UNCHANGED <<norm_in, norm_out, norm_depth, tokens, lookups, resolved,
                   handled>>
    /\ UNCHANGED <<ledger_vars, index_vars, stream_vars>>

\* DiscordAliasResponder.extract_triggers(text)
ExtractTriggers ==
    /\ handled = "none"
    /\ handled' = "triggers"
    /\ tokens' = extract_triggers(text)
    /\ UNCHANGED <<norm_in, norm_out, norm_depth, text, pieces, lookups,
                   resolved>>
    /\ UNCHANGED <<ledger_vars, index_vars, stream_vars>>

\* DiscordAliasResponder._extract_fallback_token_list(text)
ExtractFallback ==
    /\ handled = "none"
    /\ handled' = "fallback"
    /\ tokens' = extract_fallback_token_list(text)
    /\ UNCHANGED <<norm_in, norm_out, norm_depth, text, pieces, lookups,
                   resolved>>
    /\ UNCHANGED <<ledger_vars, index_vars, stream_vars>>

\* extract_aliases(text)
ExtractAliases ==
    /\ handled = "none"
    /\ handled' = "aliases"
    /\ tokens' = extract_aliases(text)
    /\ UNCHANGED <<norm_in, norm_out, norm_depth, text, pieces, lookups,
                   resolved>>
    /\ UNCHANGED <<ledger_vars, index_vars, stream_vars>>

ExtractNext ==
    \/ \E p \in ExtractPieces : AppendPiece(p)
    \/ ExtractTriggers
    \/ ExtractFallback
    \/ ExtractAliases

SpecExtract == IndexInit /\ [][ExtractNext]_vars

(***************************************************************************)
(* The extractors at their limits: messages made of long words, a list of  *)
(* eight items, a link and a token that spans two lines                    *)
(***************************************************************************)
\* A word as long as a bracketed alias may be, and the word that fills it up
\* to the longest item of a fallback list
LongWord == [i \in 1..AliasMaxLen |-> "a"]
FillWord == [i \in 1..(FallbackMaxLen - AliasMaxLen) |-> "a"]

\* As many items as a fallback list may hold, each followed by a comma
RECURSIVE FullList(_)
FullList(n) == IF n = 0 THEN <<>> ELSE <<"a", COMMA>> \o FullList(n - 1)

LimitPieces ==
    { <<LBRACKET, LBRACKET>>, <<RBRACKET, RBRACKET>>, <<"a">>,
      <<COMMA>>, <<"a", LF, "b">>, LongWord, FillWord,
      FullList(FallbackMaxItems), HttpScheme \o <<"x">> }

\* The longest message typed
MaxLimitLen == 100

\* The user types one more fragment of the message
AppendLimitPiece(p) ==
    /\ handled = "none"
    /\ pieces < MaxPieces
    /\ Len(text) + Len(p) <= MaxLimitLen
    /\ pieces' = pieces + 1
    /\ text' = text \o p
    /\ UNCHANGED <<norm_in, norm_out, norm_depth, tokens, lookups, resolved,
                   handled>>
    /\ UNCHANGED <<ledger_vars, index_vars, stream_vars>>

LimitsNext ==
    \/ \E p \in LimitPieces : AppendLimitPiece(p)
    \/ ExtractTriggers
    \/ ExtractFallback
    \/ ExtractAliases

SpecLimits == IndexInit /\ [][LimitsNext]_vars

(***************************************************************************)
(* Resolution: resolve_cards_for_comment (Reddit) and                      *)
(* DiscordAliasResponder.handle_message (Discord) on a built index         *)
(***************************************************************************)
MaxTokens == 3

\* A loop that appends every card found, whatever the result holds already
RECURSIVE ResolveLoop_NoNameCheck(_, _, _)
ResolveLoop_NoNameCheck(alias_map, toks, acc) ==
    IF toks = <<>> THEN acc
    ELSE LET t == Head(toks)
             ukey == Upper(JoinSp(Runs(Strip(t), Whitespace, 1, <<>>)))
             card == lookup(alias_map, t)
         IN  IF ukey \in acc.seen
             THEN ResolveLoop_NoNameCheck(alias_map, Tail(toks), acc)
             ELSE ResolveLoop_NoNameCheck(alias_map, Tail(toks),
                      [seen |-> acc.seen \cup {ukey},
                       lookups |-> Append(acc.lookups, t),
                       resolved |-> IF card # NoCard
                                    THEN Append(acc.resolved, card)
                                    ELSE acc.resolved])

\* resolve_cards_for_comment, lines 112-124: the loop over the tokens.
\* acc is [seen, lookups, resolved]
RECURSIVE ResolveLoop(_, _, _)
ResolveLoop(alias_map, toks, acc) ==
    IF toks = <<>> THEN acc
    ELSE LET t == Head(toks)
             key == JoinSp(Runs(Strip(t), Whitespace, 1, <<>>))
             ukey == Upper(key)
             card == lookup(alias_map, t)
             fresh == \A i \in 1..Len(acc.resolved) :
                          acc.resolved[i].name # card.name
         IN  IF ukey \in acc.seen
             THEN ResolveLoop(alias_map, Tail(toks), acc)
             ELSE ResolveLoop(alias_map, Tail(toks),
                      [seen |-> acc.seen \cup {ukey},
                       lookups |-> Append(acc.lookups, t),
                       resolved |-> IF card # NoCard /\ fresh
                                    THEN Append(acc.resolved, card)
                                    ELSE acc.resolved])

\* resolve_cards_for_comment with lookup_fn = index.lookup
resolve_cards_for_comment(alias_map, body) ==
    ResolveLoop(alias_map, extract_aliases(body),
                [seen |-> {}, lookups |-> <<>>, resolved |-> <<>>])

\* A loop that looks every token up, repeated or not
RECURSIVE HandleLoop_NoSeenCheck(_, _, _)
HandleLoop_NoSeenCheck(alias_map, toks, acc) ==
    IF toks = <<>> THEN acc
    ELSE LET t == Head(toks)
             card == lookup(alias_map, Strip(t))
         IN  HandleLoop_NoSeenCheck(alias_map, Tail(toks),
                 [seen |-> acc.seen \cup {Upper(t)},
                  lookups |-> Append(acc.lookups, t),
                  resolved |-> IF card # NoCard
                               THEN Append(acc.resolved, card)
                               ELSE acc.resolved])

\* handle_message, lines 161-175: the loop over the tokens. The reply is
\* one block per entry of resolved, in order
RECURSIVE HandleLoop(_, _, _)
HandleLoop(alias_map, toks, acc) ==
    IF toks = <<>> THEN acc
    ELSE LET t == Head(toks)
             key == Upper(t)
             card == lookup(alias_map, Strip(t))
         IN  IF key \in acc.seen
             THEN HandleLoop(alias_map, Tail(toks), acc)
             ELSE HandleLoop(alias_map, Tail(toks),
                      [seen |-> acc.seen \cup {key},
                       lookups |-> Append(acc.lookups, t),
                       resolved |-> IF card # NoCard
                                    THEN Append(acc.resolved, card)
                                    ELSE acc.resolved])

\* DiscordAliasResponder.handle_message
handle_message(alias_map, message) ==
    HandleLoop(alias_map, extract_triggers(message),
               [seen |-> {}, lookups |-> <<>>, resolved |-> <<>>])

\* The cards file of the resolution runs: a card with an alias of two
\* words, and a second card
ResolveCatalogs ==
    { << [name |-> <<"a", "b", SP, "c">>, aliases |-> <<"x", SP, "z">>],
         [name |-> <<"X", "y", "z">>,     aliases |-> <<"x", "|">>] >> }

Bracketed(t) == <<LBRACKET, LBRACKET>> \o t \o <<RBRACKET, RBRACKET, SP>>

\* Bracketed tokens of a message: a card's name, the name in other letter
\* case, the name with other inner whitespace, an alias of the same card,
\* the other card's name, a token that matches nothing
ResolveTokens ==
    { <<"a", "b", SP, "c">>, <<"A", "B", SP, "C">>, <<"a", "b", SP, SP, "c">>,
      <<"x", SP, "z">>, <<"x", "y", "z">>, <<"q", "q", "q", "q">> }

\* load_cards_from_csv and CardIndex.build at start-up
LoadCatalog(rows) == BuildIndex(rows) /\ UNCHANGED <<ledger_vars, text_vars, stream_vars>>

\* The user types one more bracketed token
AppendToken(t) ==
    /\ built
    /\ handled = "none"
    /\ pieces < MaxTokens
    /\ pieces' = pieces + 1
    /\ text' = text \o Bracketed(t)
    /\ UNCHANGED <<norm_in, norm_out, norm_depth, tokens, lookups, resolved,
                   handled>>
    /\ UNCHANGED <<ledger_vars, index_vars, stream_vars>>

\* DiscordAliasResponder.handle_message(text)
HandleMessage ==
    /\ built
    /\ handled = "none"
    /\ handled' = "discord"
    /\ tokens' = extract_triggers(text)
    /\ LET r == handle_message(by_alias, text)
       IN  lookups' = r.lookups /\ resolved' = r.resolved
    /\ UNCHANGED <<norm_in, norm_out, norm_depth, text, pieces>>
    /\ UNCHANGED <<ledger_vars, index_vars, stream_vars>>

\* resolve_cards_for_comment(text, index.lookup)
ResolveComment ==
    /\ built
    /\ handled = "none"
    /\ handled' = "reddit"
    /\ tokens' = extract_aliases(text)
    /\ LET r == resolve_cards_for_comment(by_alias, text)
       IN  lookups' = r.lookups /\ resolved' = r.resolved
    /\ UNCHANGED <<norm_in, norm_out, norm_depth, text, pieces>>
    /\ UNCHANGED <<ledger_vars, index_vars, stream_vars>>

ResolveNext ==
    \/ \E rows \in ResolveCatalogs : LoadCatalog(rows)
    \/ \E t \in ResolveTokens : AppendToken(t)
    \/ HandleMessage
    \/ ResolveComment

SpecResolve == IndexInit /\ [][ResolveNext]_vars

(***************************************************************************)
(* reddit_comment_reply_streamer.run_stream: the comments of the stream    *)
(* are resolved and replied to, and recorded in the StateStore             *)
(***************************************************************************)
MaxComments == 2

\* cfg.bot.max_cards_per_reply
max_cards_per_reply == 1

\* The bot's account and another one
BotUser == <<"b", "o", "t">>
OtherUser == <<"u", "s", "e", "r">>

\* The index behind lookup_fn: two cards
StreamIndex ==
    build(load_cards(<< [name |-> <<"a", "b", SP, "c">>, aliases |-> <<"x", SP, "z">>],
                        [name |-> <<"X", "y", "z">>,     aliases |-> <<>>] >>)).by_alias

\* Comment bodies: one alias, two aliases, no alias, an opt-out
StreamBodies ==
    { <<"[", "a", "b", SP, "c", "]">>,
      <<"[", "a", "b", SP, "c", "]", SP, "[", "x", "y", "z", "]">>,
      <<"h", "i">>,
      <<"O", "p", "t", "o", "u", "t", SP, "[", "x", "y", "z", "]">> }

StreamComments ==
    [id : CommentIds, author : {BotUser, OtherUser}, body : StreamBodies]

\* The state files an earlier run may have left
OldStateFiles == {{}, {<<"c", "1">>}}

\* str.lower() on the characters of the comment bodies
Lower(t) == [i \in 1..Len(t) |-> IF t[i] = "O" THEN "o" ELSE FoldChar(t[i])]

\* How comment.reply can end: it returns, or raises RedditAPIException, one
\* of Forbidden, NotFound, BadRequest, OAuthException, InsufficientScope,
\* one of ServerError, RequestException, ResponseException,
\* PrawcoreException, another Exception, or KeyboardInterrupt
ReplyOutcomes == {"ok", "api", "denied", "transient", "other", "interrupt"}

\* cards[: cfg.bot.max_cards_per_reply]
Truncate(cs) ==
    IF Len(cs) > max_cards_per_reply THEN SubSeq(cs, 1, max_cards_per_reply)
    ELSE cs

\* StateStore.add: the id joins _ids and the file is rewritten; a failed
\* save is logged and leaves the file as it was
StateAdd(id, saved) ==
    /\ state_ids' = state_ids \cup {id}
    /\ state_file' = IF saved THEN state_ids \cup {id} ELSE state_file

\* The last entry of the comment's history becomes o
SetOutcome(id, o) ==
    outcomes' = [outcomes EXCEPT ![id][Len(outcomes[id])] = o]

\* run_stream, lines 124-135: fetch the authenticated user, load the state
StartStream(user, dry, file) ==
    /\ stream_pc = "off"
    /\ stream_pc' = "stream"
    /\ me' = user
    /\ dry_run' = dry
    /\ state_file' = file
    /\ state_ids' = file
    /\ UNCHANGED <<comment, reply_cards, taken, outcomes, resolved_log,
                   replied_log>>
    /\ UNCHANGED <<ledger_vars, index_vars, text_vars>>

\* run_stream, lines 137-172: the stream delivers a comment; it is skipped
\* when processed, recorded when it opts out, resolves to nothing or the run
\* is dry, and taken to the reply step otherwise
TakeComment(c, saved) ==
    /\ stream_pc = "stream"
    /\ taken < MaxComments
    /\ taken' = taken + 1
    /\ UNCHANGED <<me, dry_run, replied_log>>
    /\ IF c.id \in state_ids
       THEN UNCHANGED <<stream_pc, state_ids, state_file, comment, reply_cards,
                        outcomes, resolved_log>>
       ELSE IF IsSubstr(<<"o", "p", "t", "o", "u", "t">>, Lower(c.body))
       THEN /\ StateAdd(c.id, saved)
            /\ UNCHANGED <<stream_pc, comment, reply_cards, outcomes,
                           resolved_log>>
       ELSE LET found == resolve_cards_for_comment(StreamIndex, c.body).resolved
            IN  /\ resolved_log' = resolved_log \cup {c}
                /\ IF found = <<>> \/ dry_run
                   THEN /\ StateAdd(c.id, saved)
                        /\ UNCHANGED <<stream_pc, comment, reply_cards, outcomes>>
                   ELSE /\ stream_pc' = "reply"
                        /\ comment' = c
                        /\ reply_cards' = Truncate(found)
                        /\ outcomes' = [outcomes EXCEPT
                                           ![c.id] = Append(@, NoOutcome)]
                        /\ UNCHANGED <<state_ids, state_file>>
    /\ UNCHANGED <<ledger_vars, index_vars, text_vars>>

\* run_stream, lines 175-203: the first comment.reply
ReplyFirst(o, saved) ==
    /\ stream_pc = "reply"
    /\ SetOutcome(comment.id, [first |-> o, retry |-> "none"])
    /\ CASE o = "ok" ->
              /\ replied_log' = replied_log \cup {comment}
              /\ StateAdd(comment.id, saved)
              /\ stream_pc' = "stream"
         [] o \in {"denied", "transient"} ->
              /\ StateAdd(comment.id, saved)
              /\ stream_pc' = "stream"
              /\ UNCHANGED replied_log
         [] o = "api" ->
              /\ stream_pc' = "retry"
              /\ UNCHANGED <<state_ids, state_file, replied_log>>
         [] o = "other" ->
              /\ stream_pc' = "stream"
              /\ UNCHANGED <<state_ids, state_file, replied_log>>
         [] o = "interrupt" ->
              /\ stream_pc' = "stopped"
              /\ UNCHANGED <<state_ids, state_file, replied_log>>
    /\ UNCHANGED <<me, dry_run, comment, reply_cards, taken, resolved_log>>
    /\ UNCHANGED <<ledger_vars, index_vars, text_vars>>

\* run_stream, lines 179-187 and 194-203: the comment.reply after the
\* back-off. An exception that the inner handler does not name leaves the
\* iteration through the handler of line 200
ReplyRetry(o, saved) ==
    /\ stream_pc = "retry"
    /\ SetOutcome(comment.id, [first |-> "api", retry |-> o])
    /\ CASE o = "ok" ->
              /\ replied_log' = replied_log \cup {comment}
              /\ StateAdd(comment.id, saved)
              /\ stream_pc' = "stream"
         [] o \in {"api", "denied"} ->
              /\ StateAdd(comment.id, saved)
              /\ stream_pc' = "stream"
              /\ UNCHANGED replied_log
         [] o \in {"transient", "other"} ->
              /\ stream_pc' = "stream"
              /\ UNCHANGED <<state_ids, state_file, replied_log>>
         [] o = "interrupt" ->
              /\ stream_pc' = "stopped"
              /\ UNCHANGED <<state_ids, state_file, replied_log>>
    /\ UNCHANGED <<me, dry_run, comment, reply_cards, taken, resolved_log>>
    /\ UNCHANGED <<ledger_vars, index_vars, text_vars>>

StreamNext ==
    \/ \E user \in {BotUser, NoUser}, dry \in BOOLEAN, file \in OldStateFiles :
          StartStream(user, dry, file)
    \/ \E c \in StreamComments, saved \in BOOLEAN : TakeComment(c, saved)
    \/ \E o \in ReplyOutcomes, saved \in BOOLEAN : ReplyFirst(o, saved)
    \/ \E o \in ReplyOutcomes, saved \in BOOLEAN : ReplyRetry(o, saved)

SpecStream == IndexInit /\ [][StreamNext]_vars

(***************************************************************************)
(* Claims about the ledger                                                 *)
(***************************************************************************)
CleanName == Strip(arg_name)
CleanAlias == Strip(arg_alias)

\* The view of memory a new store built on the same path would have
Reloaded ==
    LET m == load_all(file_data) IN DictView(m.dicts, m.sets, StoreDict)

\* C1: an add_alias call that returns, returns True exactly when both
\* arguments are non-empty after trimming and the trimmed, case-folded pair
\* was not accepted before (by an earlier add or by the load at
\* construction), and False otherwise.
C1_AddReturnsTrueIffNew ==
    [][ (ret' \in {"True", "False"} /\ (calls' # calls \/ pc = "update"))
        => (ret' = "True"
            <=> /\ Strip(arg_name') # <<>>
                /\ Strip(arg_alias') # <<>>
                /\ Key(Strip(arg_name'), Strip(arg_alias')) \notin accepted) ]_vars

\* C1 witness: one alias text is held for two different names, and the last
\* call re-taught a held pair in another letter case and got False.
C1_Witness ==
    /\ alive /\ pc = "idle" /\ ret = "False"
    /\ CleanName # <<>> /\ CleanAlias # <<>>
    /\ <<CleanName, CleanAlias>> \notin PairsOf(aliases_by_name)
    /\ Key(CleanName, CleanAlias) \in seen_lower
    /\ \E n1, n2 \in DOMAIN aliases_by_name :
          n1 # n2 /\ aliases_by_name[n1] \cap aliases_by_name[n2] # {}

\* C2: whenever no add_alias call is in progress, a new store built on the
\* same path has the same all_aliases() as the live store, and no two of its
\* pairs are equal after case-folding while every pair of the file is there.
C2_ReloadEqualsMemory ==
    (alive /\ pc = "idle")
    => LET reloaded == Reloaded
           pairs == PairsOf(reloaded)
           keys == {Key(p[1], p[2]) : p \in pairs}
       IN  /\ reloaded = aliases_by_name
           /\ Cardinality(keys) = Cardinality(pairs)
           /\ keys = {Key(p[1], p[2]) : p \in Range(FilePairs(file_data))}

\* C2 witness: two accepted adds, one of a name the csv writer had to quote.
C2_Witness ==
    /\ alive /\ pc = "idle" /\ ret = "True"
    /\ Cardinality(appended) >= 2
    /\ \E p \in appended : NeedsQuote(p[1]) /\ NeedsQuote(p[2])

\* C3: when the append failed (the file was opened and is what it was when
\* the call began), the call raised, both in-memory maps are what they were
\* before the call, and the same pair would not be rejected as a duplicate.
C3_FailedAppendLeavesMemory ==
    (alive /\ pc = "idle" /\ did_io /\ file_data = pre_file)
    => /\ ret = "raised"
       /\ StoreMem = pre_mem
       /\ ~Rejects(seen_lower, arg_name, arg_alias)

\* C3 witness: an append failed on a store that already holds pairs.
C3_Witness ==
    /\ alive /\ ret = "raised" /\ seen_lower # {} /\ appended # {}

\* C4: every pair held in memory has a row in the file, in every state
\* (also between the append and the memory update, and after a crash and a
\* restart), and a reload holds every pair whose append completed.
C4_MemoryNeverAheadOfDisk ==
    LET on_disk == Range(FilePairs(file_data))
    IN  /\ alive => PairsOf(aliases_by_name) \subseteq on_disk
        /\ alive => seen_lower \subseteq {Key(p[1], p[2]) : p \in on_disk}
        /\ appended \subseteq PairsOf(Reloaded)

\* C4 witness: after a crash and a restart, a row is appended and not yet
\* mirrored into memory.
C4_Witness ==
    /\ alive /\ crashes = 1 /\ pc = "update"
    /\ <<CleanName, CleanAlias>> \in Range(FilePairs(file_data))
    /\ <<CleanName, CleanAlias>> \notin PairsOf(aliases_by_name)
    /\ PairsOf(aliases_by_name) \cap appended # {}

\* C5: the file is append-only (its characters and its rows before a step
\* are a prefix of those after it, and it is never removed), and the step in
\* which add_alias returns True finds exactly one more row on disk than when
\* the call began, that row being the trimmed pair.
C5_AppendOnly ==
    [][ /\ file_exists => /\ file_exists'
                          /\ \/ file_data' = file_data
                             \/ /\ IsPrefix(file_data, file_data')
                                /\ IsPrefix(csv_reader(file_data).rows,
                                            csv_reader(file_data').rows)
        /\ (pc = "update" /\ ret' = "True")
           => LET before == csv_reader(pre_file).rows
                  after == csv_reader(file_data').rows
              IN  /\ Len(after) = Len(before) + 1
                  /\ after[Len(after)] = <<Strip(arg_name), Strip(arg_alias)>> ]_vars

\* C5 witness: a store built on an existing file (after a crash) accepted an
\* add.
C5_Witness ==
    /\ alive /\ crashes = 1 /\ pc = "idle" /\ ret = "True"
    /\ Len(file_data) > Len(pre_file) /\ Len(pre_file) > Len(OldFile)

\* C6: a rejected add_alias call opens no file and leaves the file and both
\* in-memory maps unchanged.
C6_RejectedAddChangesNothing ==
    [][ (calls' = calls + 1 /\ ret' = "False")
        => /\ ~did_io'
           /\ file_exists' = file_exists
           /\ file_data' = file_data
           /\ heap_dicts' = heap_dicts
           /\ heap_sets' = heap_sets
           /\ seen_lower' = seen_lower ]_vars

\* C6 witness: a duplicate (not an empty argument) was rejected.
C6_Witness ==
    /\ alive /\ pc = "idle" /\ ret = "False" /\ ~did_io
    /\ CleanName # <<>> /\ CleanAlias # <<>>
    /\ file_data = pre_file /\ StoreMem = pre_mem


\* C7: the mapping all_aliases() returned is not changed by a later
\* add_alias step, and a caller's mutation of it (or of one of its sets)
\* changes neither the store's _aliases_by_name nor its _seen_lower, on
\* which the results of later add_alias and all_aliases calls depend.
C7_AllAliasesIsACopy ==
    [][ /\ (snap # 0 /\ snap' = snap /\ mutations' = mutations)
           => SnapView' = SnapView
        /\ (mutations' # mutations)
           => /\ aliases_by_name' = aliases_by_name
              /\ heap_dicts'[StoreDict] = heap_dicts[StoreDict]
              /\ seen_lower' = seen_lower ]_vars

\* C7 witness: after the snapshot the store added an alias under a name the
\* snapshot holds, and the caller mutated the snapshot.
C7_Witness ==
    /\ snap # 0 /\ mutations >= 1 /\ pc = "idle" /\ ret = "True"
    /\ \E n \in DOMAIN SnapView \cap DOMAIN aliases_by_name :
          /\ ~(aliases_by_name[n] \subseteq SnapView[n])
          /\ SnapView[n] # {}


(***************************************************************************)
(* Claims about the teaching flow and the index                            *)
(***************************************************************************)
CardNames == {catalog[i].name : i \in 1..Len(catalog)}

\* C8: once the bot runs, every (name, alias) pair of the ledger whose name
\* is a card of the catalog (a pair already in the file at start-up, or one
\* the teaching flow stored) has the normalised alias as a key of the
\* responder's index, and the responder's lookup of the alias returns the
\* card of that name.
C8_TaughtAliasesAreIndexed ==
    (alive /\ built /\ pc = "idle")
    => \A p \in PairsOf(aliases_by_name) :
          p[1] \in CardNames
          => /\ DictHas(by_alias, norm_alias(p[2]))
             /\ lookup(by_alias, Strip(p[2])).name = p[1]


\* C9: whenever the normalised token is a key of by_alias, CardIndex.lookup
\* returns the card stored under that key, even when another key would
\* score higher in the fuzzy phase.
C9_ExactMatchFirst ==
    looked =>
        (DictHas(by_alias, norm_alias(tok))
         => result = DictGet(by_alias, norm_alias(tok)))

\* An exact hit on a key that is not the one the scoring loop would keep
C9_Witness ==
    /\ looked
    /\ DictHas(by_alias, norm_alias(tok))
    /\ result = DictGet(by_alias, norm_alias(tok))
    /\ Best(by_alias, norm_alias(tok)).key # norm_alias(tok)
    /\ DictGet(by_alias, Best(by_alias, norm_alias(tok)).key) # result

\* The token has no signal against the key: no common prefix with a word of
\* the key, no substring relation, and more than two edits from the key and
\* from each of its words
NoSignal(norm_tok, key) ==
    LET words == split_words(key)
    IN  /\ ~IsSubstr(norm_tok, key) \/ norm_tok = <<>>
        /\ ~IsSubstr(key, norm_tok)
        /\ levenshtein(norm_tok, key) > 2
        /\ \A j \in 1..Len(words) :
              /\ common_prefix_len(norm_tok, words[j]) = 0
              /\ levenshtein(norm_tok, words[j]) > 2

\* C10: on an exact miss, CardIndex.lookup returns a card only if the key
\* that won the scoring has prefix_len > 0 or substring_len > 0 or
\* edit_distance <= 2, and the card is the one stored under that key; a
\* token with no signal against any key is answered with None.
C10_FuzzyGate ==
    (looked /\ ~DictHas(by_alias, norm_alias(tok)))
    => LET best == Best(by_alias, norm_alias(tok))
       IN  /\ result # NoCard
              => /\ best.key # NoKey
                 /\ result = DictGet(by_alias, best.key)
                 /\ \/ best.score[1] > 0
                    \/ best.score[3] > 0
                    \/ (0 - best.score[2]) <= 2
           /\ (\A i \in 1..Len(by_alias) :
                   NoSignal(norm_alias(tok), by_alias[i].key))
              => result = NoCard

\* A card returned on edit distance alone
C10_Witness ==
    /\ looked
    /\ ~DictHas(by_alias, norm_alias(tok))
    /\ result # NoCard
    /\ Best(by_alias, norm_alias(tok)).score[1] = 0
    /\ Best(by_alias, norm_alias(tok)).score[3] = 0


\* The tuple of one key as the scoring rule states it: the longest common
\* prefix with a word of the key, minus the least edit distance to the key
\* or a word of it, the substring length, the key's length
StatedScore(norm_tok, key) ==
    LET words == split_words(key)
        W == 1..Len(words)
    IN  << SetMax({0} \cup {common_prefix_len(norm_tok, words[j]) : j \in W}),
           0 - SetMin({levenshtein(norm_tok, key)}
                      \cup {levenshtein(norm_tok, words[j]) : j \in W}),
           IF IsSubstr(norm_tok, key) THEN Len(norm_tok)
           ELSE IF IsSubstr(key, norm_tok) THEN Len(key) ELSE 0,
           Len(key) >>

\* s comes before t in lexicographic order
LexLess(s, t) ==
    \E i \in 1..4 : s[i] < t[i] /\ \A j \in 1..(i - 1) : s[j] = t[j]

\* C11: on an exact miss, a card that CardIndex.lookup returns is stored
\* under a key whose tuple (prefix_len, -edit_distance, substring_len,
\* key_len) no other key of by_alias exceeds in lexicographic order.
C11_FuzzyPicksMaximalKey ==
    (looked /\ ~DictHas(by_alias, norm_alias(tok)) /\ result # NoCard)
    => \E i \in 1..Len(by_alias) :
          /\ result = by_alias[i].card
          /\ \A j \in 1..Len(by_alias) :
                ~LexLess(StatedScore(norm_alias(tok), by_alias[i].key),
                         StatedScore(norm_alias(tok), by_alias[j].key))

\* A fuzzy answer where the first key of the index belongs to another card
\* and scores lower than the key that won
C11_Witness ==
    /\ looked /\ ~DictHas(by_alias, norm_alias(tok)) /\ result # NoCard
    /\ Len(by_alias) >= 2
    /\ by_alias[1].card # result
    /\ LexLess(StatedScore(norm_alias(tok), by_alias[1].key),
               StatedScore(norm_alias(tok), Best(by_alias, norm_alias(tok)).key))


\* The card declares the key: it is its normalised name or one of its
\* normalised aliases
HasKey(c, k) ==
    \/ norm_alias(c.name) = k
    \/ \E a \in 1..Len(c.aliases) : norm_alias(c.aliases[a]) = k

\* The positions in the input of the cards that declare the key
Holders(k) == {c \in 1..Len(catalog) : HasKey(catalog[c], k)}

\* C12: after CardIndex.build, every key of by_alias occurs once and maps to
\* the earliest card of the input that has the key as its normalised name
\* or as one of its normalised aliases.
C12_FirstWinsInByAlias ==
    built
    => \A i \in 1..Len(by_alias) :
          /\ Holders(by_alias[i].key) # {}
          /\ by_alias[i].card = catalog[SetMin(Holders(by_alias[i].key))]
          /\ \A j \in 1..Len(by_alias) :
                by_alias[j].key = by_alias[i].key => j = i

\* Two different cards of the input declare the same key
C12_Witness ==
    /\ built
    /\ \E i \in 1..Len(by_alias) :
          \E c, d \in Holders(by_alias[i].key) : catalog[c] # catalog[d]

\* The positions in the input of the cards with the normalised name
Named(k) == {c \in 1..Len(catalog) : norm_alias(catalog[c].name) = k}

\* C13: after CardIndex.build, by_name maps every key to the first card of
\* the input with that normalised name.
C13_FirstWinsInByName ==
    built
    => \A i \in 1..Len(by_name) :
          /\ Named(by_name[i].key) # {}
          /\ by_name[i].card = catalog[SetMin(Named(by_name[i].key))]

\* C14: after CardIndex.build, every key of by_name is a key of by_alias.
C14_NameKeysAreAliasKeys ==
    built => \A i \in 1..Len(by_name) : DictHas(by_alias, by_name[i].key)

\* An index of two names, where an alias of the first card is the
\* normalised name of no card
C14_Witness ==
    /\ built
    /\ Len(by_name) >= 2
    /\ \E i \in 1..Len(by_alias) : ~DictHas(by_name, by_alias[i].key)


\* C15: _norm_alias applied to a string it returned gives that string back.
C15_NormIdempotent ==
    norm_depth >= 2 => norm_out = norm_in

\* A normal form of two words, normalised again
C15_Witness ==
    /\ norm_depth = 2
    /\ norm_in = <<"A", SP, "B">>
    /\ norm_out = <<"A", SP, "B">>


\* The positions of the tokens that the index resolves to the card
TokensFor(card) ==
    {k \in 1..Len(tokens) : lookup(by_alias, tokens[k]) = card}

\* C16: the result of resolve_cards_for_comment holds no two cards of the
\* same name, holds exactly the cards that the extracted tokens resolve to,
\* and lists them in the order of the first token that resolved to each.
C16_RedditResultIsDistinct ==
    handled = "reddit"
    => /\ \A i, j \in 1..Len(resolved) :
             resolved[i].name = resolved[j].name => i = j
       /\ \A i \in 1..Len(resolved) : TokensFor(resolved[i]) # {}
       /\ \A k \in 1..Len(tokens) :
             lookup(by_alias, tokens[k]) # NoCard
             => \E i \in 1..Len(resolved) :
                   resolved[i] = lookup(by_alias, tokens[k])
       /\ \A i, j \in 1..Len(resolved) :
             i < j => SetMin(TokensFor(resolved[i])) < SetMin(TokensFor(resolved[j]))

\* A card's name and its alias were both in the comment, after a token of
\* the other card
C16_Witness ==
    /\ handled = "reddit"
    /\ Len(resolved) = 2
    /\ Len(lookups) = 3
    /\ Cardinality(TokensFor(resolved[2])) = 2

\* C17: the reply of handle_message holds each card at most once.
C17_DiscordReplyIsDistinct ==
    handled = "discord"
    => \A i, j \in 1..Len(resolved) : resolved[i] = resolved[j] => i = j

\* The text in which the tokens appear bracketed, in this order
RECURSIVE Typed(_)
Typed(toks) ==
    IF toks = <<>> THEN <<>> ELSE Bracketed(Head(toks)) \o Typed(Tail(toks))

\* The key by which the resolving loop of the path taken remembers a token
SeenKey(t) == IF handled = "reddit" THEN norm_alias(t) ELSE Upper(t)

\* The position of the first extracted token with the key of t
FirstAt(t) == SetMin({k \in 1..Len(tokens) : SeenKey(tokens[k]) = SeenKey(t)})

\* C18 as stated: no token returned by the extractor is normalized-equal
\* to a token returned earlier in the same list.
C18_ExtractorDeduplicates ==
    handled # "none"
    => \A i, j \in 1..Len(tokens) :
          norm_alias(tokens[i]) = norm_alias(tokens[j]) => i = j

\* C18: the extractor returns the bracketed tokens in order of appearance,
\* a repeated token as often as it appears; the resolving loop is what drops
\* repeats: it looks up the first token of every key (the normalized token
\* on the Reddit path, the upper-cased token on the Discord path), in order
\* of appearance, and no token whose key equals that of an earlier one.
C18_LoopDeduplicates ==
    handled # "none"
    => /\ Typed(tokens) = text
       /\ \A i, j \in 1..Len(lookups) :
             SeenKey(lookups[i]) = SeenKey(lookups[j]) => i = j
       /\ \A k \in 1..Len(tokens) :
             \E i \in 1..Len(lookups) : SeenKey(lookups[i]) = SeenKey(tokens[k])
       /\ \A i \in 1..Len(lookups) : lookups[i] = tokens[FirstAt(lookups[i])]
       /\ \A i, j \in 1..Len(lookups) :
             i < j => FirstAt(lookups[i]) < FirstAt(lookups[j])

\* The message repeated a token in another case between two other tokens
C18_Witness ==
    /\ handled = "discord"
    /\ Len(tokens) = 3
    /\ Len(lookups) = 2
    /\ tokens[1] # tokens[3]
    /\ Upper(tokens[1]) = Upper(tokens[3])

\* The positions where a [[...]] token starts: two opening brackets, one or
\* more characters that are no brackets, two closing brackets
TokenStarts(s) ==
    {i \in 1..Len(s) :
        \E k \in (i + 3)..(Len(s) - 1) :
            /\ s[i] = LBRACKET /\ s[i + 1] = LBRACKET
            /\ s[k] = RBRACKET /\ s[k + 1] = RBRACKET
            /\ \A m \in (i + 2)..(k - 1) : s[m] \notin {LBRACKET, RBRACKET}}

\* The text between the brackets of the token that starts at i
TokenAt(s, i) ==
    LET k == SetMin({m \in (i + 2)..Len(s) : s[m] = RBRACKET})
    IN  SubSeq(s, i + 2, k - 1)

\* The trimmed tokens that start at the positions, left to right, without
\* the blank ones
RECURSIVE TokensInOrder(_, _)
TokensInOrder(s, starts) ==
    IF starts = {} THEN <<>>
    ELSE LET i == SetMin(starts)
             t == Strip(TokenAt(s, i))
         IN  (IF t = <<>> THEN <<>> ELSE <<t>>)
             \o TokensInOrder(s, starts \ {i})

\* C19: extract_triggers returns exactly the non-empty trimmed [[...]]
\* tokens when the message has one, and the result of the fallback list
\* extraction when it has none; the fallback returns nothing for a text that
\* contains both "[[" and "]]".
C19_StrategiesInOrder ==
    /\ handled = "triggers"
       => LET bracketed == TokensInOrder(text, TokenStarts(text))
          IN  IF bracketed # <<>> THEN tokens = bracketed
              ELSE tokens = extract_fallback_token_list(text)
    /\ (/\ handled = "fallback"
        /\ IsSubstr(<<LBRACKET, LBRACKET>>, text)
        /\ IsSubstr(<<RBRACKET, RBRACKET>>, text))
       => tokens = <<>>

\* A message with a padded [[...]] token: the token is returned trimmed and
\* the fallback adds nothing
C19_Witness ==
    /\ handled = "triggers"
    /\ TokenStarts(text) = {1}
    /\ TokenAt(text, 1) = <<SP, "a">>
    /\ tokens = <<<<"a">>>>

\* The text contains a comma, a pipe, a slash or a newline
HasSeparator(t) == \E i \in 1..Len(t) : t[i] \in {COMMA, "|", "/", LF}

\* The text contains . ! or ? followed by whitespace, or starts with three
\* words separated by whitespace, a word being a run of word characters
ReadsLikeSentence(t) ==
    \/ \E i \in 1..(Len(t) - 1) : t[i] \in {".", "!", "?"} /\ IsSpace(t[i + 1])
    \/ \E a \in 1..Len(t) :
          /\ \A m \in 1..a : IsWord(t[m])
          /\ \E b \in (a + 1)..Len(t) :
                /\ \A m \in (a + 1)..b : IsSpace(t[m])
                /\ \E c \in (b + 1)..Len(t) :
                      /\ \A m \in (b + 1)..c : IsWord(t[m])
                      /\ \E d \in (c + 2)..Len(t) :
                            /\ \A m \in (c + 1)..(d - 1) : IsSpace(t[m])
                            /\ IsWord(t[d])

\* The list that the steps other than the sentence test make of a text
ListWithoutSentenceTest(raw) ==
    LET t == Strip(raw)
        parts == StripAll(Runs(t, Separators, 1, <<>>))
    IN  IF t = <<>> THEN <<>>
        ELSE IF IsSubstr(<<LBRACKET, LBRACKET>>, t)
                /\ IsSubstr(<<RBRACKET, RBRACKET>>, t) THEN <<>>
        ELSE IF ~(1 <= Len(parts) /\ Len(parts) <= FallbackMaxItems) THEN <<>>
        ELSE CleanParts(parts)

ItemStarts(t) ==
    {i \in 1..Len(t) :
        ~HasSeparator(<<t[i]>>) /\ (i = 1 \/ HasSeparator(<<t[i - 1]>>))}

\* The item that starts at i, trimmed: it ends before the next separator
ItemAt(t, i) ==
    LET stops == {k \in i..Len(t) : HasSeparator(<<t[k]>>)} \cup {Len(t) + 1}
    IN  Strip(SubSeq(t, i, SetMin(stops) - 1))

\* The non-empty items that start at the positions, left to right
RECURSIVE ItemsInOrder(_, _)
ItemsInOrder(t, starts) ==
    IF starts = {} THEN <<>>
    ELSE LET i == SetMin(starts)
             item == ItemAt(t, i)
         IN  (IF item = <<>> THEN <<>> ELSE <<item>>)
             \o ItemsInOrder(t, starts \ {i})

\* The item is 1 to 60 characters long and holds no URL scheme
IsKept(item) ==
    /\ 1 <= Len(item) /\ Len(item) <= FallbackMaxLen
    /\ ~IsSubstr(HttpScheme, item) /\ ~IsSubstr(HttpsScheme, item)

\* The text is one that the fallback splits: it holds no pair of double
\* brackets and is not a sentence without separators
IsSplit(t) ==
    /\ ~(IsSubstr(<<LBRACKET, LBRACKET>>, t) /\ IsSubstr(<<RBRACKET, RBRACKET>>, t))
    /\ ~(~HasSeparator(Strip(t)) /\ ReadsLikeSentence(Strip(t)))

IsCleanToken(t) ==
    /\ Strip(t) = t
    /\ 1 <= Len(t) /\ Len(t) <= AliasMaxLen
    /\ \A i \in 1..Len(t) : t[i] \notin {LBRACKET, RBRACKET, LF}
    /\ ~IsSubstr(HttpScheme, t) /\ ~IsSubstr(HttpsScheme, t)

\* C22: every token that delimiter extraction returns, from extract_aliases
\* and from the [[...]] tokens of extract_triggers, is trimmed, 1 to 40
\* characters long, and holds no bracket, no newline and no URL scheme.
C22_DelimiterTokensAreClean ==
    (\/ handled = "aliases"
     \/ handled = "triggers" /\ TokensInOrder(text, TokenStarts(text)) # <<>>)
    => \A k \in 1..Len(tokens) : IsCleanToken(tokens[k])

\* C23: for every token, the empty one, a blank one and any token on an
\* empty index included, CardIndex.lookup ends with a value: a card stored
\* in by_alias or None; it is None for the empty token, on an empty index,
\* and when no key equals the normalised token or has a signal for it.
C23_LookupIsTotal ==
    looked
    => /\ \/ result = NoCard
          \/ \E i \in 1..Len(by_alias) : result = by_alias[i].card
       /\ (tok = <<>> \/ by_alias = <<>>) => result = NoCard
       /\ (/\ ~DictHas(by_alias, norm_alias(tok))
           /\ \A i \in 1..Len(by_alias) :
                 NoSignal(norm_alias(tok), by_alias[i].key))
          => result = NoCard

\* A blank token was looked up on an index without keys
C23_Witness ==
    /\ looked
    /\ tok = <<SP>>
    /\ by_alias = <<>>
    /\ result = NoCard

\* C27: on an exact miss, if a key of by_alias has a signal for the
\* normalised token (a common prefix with a word of the key, a substring
\* relation, or an edit distance of at most 2), CardIndex.lookup returns a
\* card and not None.
C27_FuzzyCompleteness ==
    (/\ looked
     /\ tok # <<>>
     /\ ~DictHas(by_alias, norm_alias(tok))
     /\ \E i \in 1..Len(by_alias) : ~NoSignal(norm_alias(tok), by_alias[i].key))
    => result # NoCard

\* C26: whenever a CustomAliasStore exists, the case-folded pairs of
\* _aliases_by_name are exactly _seen_lower, no two stored pairs are equal
\* after case-folding, and there are as many stored pairs as accepted rows.
C26_MemoryAgrees ==
    alive
    => LET P == PairsOf(aliases_by_name)
       IN  /\ {Key(p[1], p[2]) : p \in P} = seen_lower
           /\ \A p, q \in P : Key(p[1], p[2]) = Key(q[1], q[2]) => p = q
           /\ Cardinality(P) = Cardinality(accepted)

\* A store loaded from a file with a repeated pair accepted one more pair
C26_Witness ==
    /\ alive
    /\ pc = "idle"
    /\ Cardinality(PairsOf(aliases_by_name)) = 2
    /\ Len(FilePairs(file_data)) = 3

\* The reply step ended in one of the ways the statement lists: the reply
\* was sent, the first attempt failed with an error that run_stream names,
\* or the attempt after the back-off was made and sent or failed so
Listed(o) ==
    \/ o.first \in {"ok", "denied", "transient"}
    \/ o.first = "api" /\ o.retry \in {"ok", "api", "denied", "transient"}

\* C24: a comment whose reply step ended (with a reply, with a failure of
\* the first attempt, or with a failure of the attempt after the back-off)
\* is in the StateStore, and that reply step was the comment's last.
C24_RepliedCommentsAreRecorded ==
    \A id \in CommentIds :
        \A k \in 1..Len(outcomes[id]) :
            Listed(outcomes[id][k])
            => id \in state_ids /\ k = Len(outcomes[id])

\* C25: no comment written by the authenticated user is resolved or
\* replied to.
C25_OwnCommentsAreSkipped ==
    me # NoUser
    => \A c \in resolved_log \cup replied_log : c.author # me

====
